---------------------------- MODULE Spec2Model ----------------------------
(***************************************************************************)
(* A model of the KSBA core: the certificate facade (cert.c), the CMS      *)
(* outer parser (cms-parser.c) and the keyinfo codec (keyinfo.c).          *)
(*                                                                         *)
(* Bytes are integers 0..255, buffers are sequences of bytes, C strings    *)
(* are sequences of ASCII codes.  Error codes are strings that carry the   *)
(* C name of the code; "OK" is the value 0.                                *)
(*                                                                         *)
(* Each subsystem has its own specification: SpecCert and SpecAccessors    *)
(* for the certificate facade, SpecAlg, SpecRange and SpecVal for the      *)
(* algorithm parsers, SpecCms, SpecData and SpecLoop for the CMS parser,   *)
(* SpecKey for the keyinfo codec.  The variables of the other subsystems   *)
(* stay at their idle value there.                                         *)
(***************************************************************************)
EXTENDS Integers, Sequences, FiniteSets, TLC

VARIABLES
  cert,      \* the certificate handle: struct ksba_cert_s
  alive,     \* FALSE once the handle was passed to ksba_cert_release
  heap,      \* the allocations the handle owns that are still live
  last,      \* the last facade call: its name, arguments, result, and
             \* the handle as it was before the call
  hashed,    \* the hasher invocations made by the last call, in order
  ain,       \* the input of a call into the AlgorithmIdentifier parser
  ares,      \* what the call returned
  apc,       \* "idle", "input" (not yet called) or the function called
  cin,       \* the bytes behind the reader of a CMS handle, with their parts
  cms,       \* the CMS handle: its content fields and the reader's position
  cres,      \* the last call of the CMS parser and its result
  kin,       \* the input of the keyinfo codec
  ksexp,     \* the S-expression the codec works on, or how making it failed
  kder,      \* what _ksba_keyinfo_from_sexp returned
  kpc        \* "idle", "der", "sexp" or "done"

certVars == <<cert, alive, heap, last, hashed>>

algVars == <<ain, ares, apc>>

cmsVars == <<cin, cms, cres>>

keyVars == <<kin, ksexp, kder, kpc>>

vars == <<cert, alive, heap, last, hashed, ain, ares, apc, cin, cms, cres,
          kin, ksexp, kder, kpc>>

NULL == "NULL"
OK == "OK"

(***************************************************************************)
(* Bounds of the model.                                                    *)
(***************************************************************************)
MaxImage == 2      \* longest certificate image the decoder delivers

(***************************************************************************)
(* Small helpers.                                                          *)
(***************************************************************************)
Min(a, b) == IF a < b THEN a ELSE b

Slice(s, from, n) == SubSeq(s, from + 1, from + n)
  \* the n bytes at C offset from: s + from, length n

(***************************************************************************)
(*                      E.  The certificate facade                         *)
(***************************************************************************)

\* What the generic decoder can deliver as an image: distinct bytes, so
\* that a wrong offset or length is visible in the bytes handed on.
Images == { [i \in 1..n |-> b + i] : n \in 1..MaxImage, b \in {16, 32} }

\* A decoded node, reduced to what the facade reads: off, nhdr, len.  A
\* node the decoder did not fill has off = -1.
NodesIn(n) ==
  { [off |-> o, nhdr |-> h, len |-> l] :
        o \in 0..n, h \in 1..2, l \in 0..n }

FilledNodes(n) == { nd \in NodesIn(n) : nd.off + nd.nhdr + nd.len <= n }

UnfilledNode == [off |-> -1, nhdr |-> 0, len |-> 0]

\* The null pointer as a node: what _ksba_asn_find_node returns for a
\* path the tree does not have.
NullNode == [off |-> -2, nhdr |-> 0, len |-> 0]

\* The decoded tree, reduced to the answers _ksba_asn_find_node gives for
\* the two paths ksba_cert_hash asks for.
Roots(n) ==
  [ Certificate : FilledNodes(n) \cup {UnfilledNode, NullNode},
    tbsCertificate : FilledNodes(n) \cup {UnfilledNode, NullNode} ]

\* cert->root of a handle that was never populated.
NullRoot == [Certificate |-> NullNode, tbsCertificate |-> NullNode]

_ksba_asn_find_node(root, path) ==
  IF path = "Certificate" THEN root.Certificate
  ELSE IF path = "Certificate.tbsCertificate" THEN root.tbsCertificate
  ELSE IF path \in DOMAIN root THEN root[path]
  ELSE NullNode

\* ksba_cert_new: xtrycalloc gives a zeroed struct.
ksba_cert_new ==
  [initialized |-> FALSE, asn_tree |-> NULL, root |-> NullRoot,
   image |-> <<>>, imagelen |-> 0, last_error |-> OK]

NoCall ==
  [op |-> "none", err |-> OK, pre |-> ksba_cert_new, arg |-> NULL, what |-> 0]

\* The steps of ksba_cert_read_der that can fail, in program order.
ReadDerFailures ==
  { "create_tree", "decoder_new", "set_reader", "set_module", "decode" }

ReadDerError(f) ==
  CASE f = "create_tree" -> "KSBA_General_Error"
    [] f = "decoder_new" -> "KSBA_Out_Of_Core"
    [] f = "set_reader"  -> "KSBA_Invalid_Value"
    [] f = "set_module"  -> "KSBA_Invalid_Value"
    [] f = "decode"      -> "KSBA_BER_Error"

\* What the run of the generic decoder inside ksba_cert_read_der comes
\* to: the step that fails, or ("none") the image and tree it delivers.
DecodeResults ==
  { [fail |-> f, img |-> <<>>, root |-> NullRoot] : f \in ReadDerFailures }
  \cup UNION { { [fail |-> "none", img |-> i, root |-> r] :
                   r \in Roots(Len(i)) } : i \in Images }

\* The body of ksba_cert_read_der on a non-null handle: the returned code
\* and the handle afterwards.
read_der_wrong(c, reader, d) ==
  IF reader = NULL THEN [err |-> "KSBA_Invalid_Value", cert |-> c]
  ELSE IF d.fail = "create_tree" THEN [err |-> ReadDerError(d.fail), cert |-> c]
  ELSE IF d.fail # "none"
    THEN [err |-> ReadDerError(d.fail),
          cert |-> [c EXCEPT !.asn_tree = "tmttv2"]]
  ELSE [err |-> OK,
        cert |-> [c EXCEPT !.asn_tree = "tmttv2", !.root = d.root,
                           !.image = d.img, !.imagelen = Len(d.img),
                           !.initialized = TRUE]]

read_der(c, reader, d) ==
  IF reader = NULL THEN [err |-> "KSBA_Invalid_Value", cert |-> c]
  ELSE IF c.initialized THEN [err |-> "KSBA_Conflict", cert |-> c]
  ELSE IF d.fail = "create_tree" THEN [err |-> ReadDerError(d.fail), cert |-> c]
  ELSE IF d.fail # "none"
    THEN [err |-> ReadDerError(d.fail),
          cert |-> [c EXCEPT !.asn_tree = "tmttv2"]]
  ELSE [err |-> OK,
        cert |-> [c EXCEPT !.asn_tree = "tmttv2", !.root = d.root,
                           !.image = d.img, !.imagelen = Len(d.img),
                           !.initialized = TRUE]]

\* What the handle owns after a call of read_der: the schema tree once
\* ksba_asn_create_tree succeeded, image and root once the decode did.
OwnedBy(c) ==
  (IF c.asn_tree # NULL THEN {"asn_tree"} ELSE {})
  \cup (IF c.initialized THEN {"root", "image"} ELSE {})

ksba_cert_read_der ==
  /\ alive
  /\ \E reader \in {NULL, "reader"}, d \in DecodeResults :
       LET r == read_der(cert, reader, d) IN
         /\ cert' = r.cert
         /\ heap' = heap \cup OwnedBy(r.cert)
         /\ last' = [op |-> "read_der", err |-> r.err, pre |-> cert,
                     arg |-> reader, what |-> 0]
         /\ hashed' = <<>>
         /\ UNCHANGED <<alive, algVars, cmsVars, keyVars>>

\* The body of ksba_cert_init_from_mem.  rd is what becomes of the reader
\* it builds: "oom" (ksba_reader_new returns NULL), "set_mem"
\* (ksba_reader_set_mem fails) or "reader".
init_from_mem(c, rd, d) ==
  IF rd = "oom" THEN [err |-> "KSBA_Out_Of_Core", cert |-> c]
  ELSE IF rd = "set_mem" THEN [err |-> "KSBA_Invalid_Value", cert |-> c]
  ELSE read_der(c, "reader", d)

ksba_cert_init_from_mem ==
  /\ alive
  /\ \E rd \in {"oom", "set_mem", "reader"}, d \in DecodeResults :
       LET r == init_from_mem(cert, rd, d) IN
         /\ cert' = r.cert
         /\ heap' = heap \cup OwnedBy(r.cert)
         /\ last' = [op |-> "init_from_mem", err |-> r.err, pre |-> cert,
                     arg |-> rd, what |-> 0]
         /\ hashed' = <<>>
         /\ UNCHANGED <<alive, algVars, cmsVars, keyVars>>

\* The node path ksba_cert_hash looks up for WHAT.
HashPath(what) ==
  IF what = 1 THEN "Certificate.tbsCertificate" ELSE "Certificate"

\* The bytes ksba_cert_hash hands to the hasher for node n.
HashBytes_wrong(c, n) == Slice(c.image, n.off + n.nhdr, n.len)

HashBytes(c, n) == Slice(c.image, n.off, n.nhdr + n.len)

\* ksba_cert_hash on a non-null handle: the returned code and the hasher
\* calls made.
cert_hash(c, what) ==
  IF ~c.initialized THEN [err |-> "KSBA_No_Data", calls |-> <<>>]
  ELSE LET n == _ksba_asn_find_node(c.root, HashPath(what)) IN
    IF n = NullNode THEN [err |-> "KSBA_No_Value", calls |-> <<>>]
    ELSE IF n.off = -1 THEN [err |-> "KSBA_No_Value", calls |-> <<>>]
    ELSE [err |-> OK, calls |-> << HashBytes(c, n) >>]

ksba_cert_hash ==
  /\ alive
  /\ \E what \in 0..2 :
       LET r == cert_hash(cert, what) IN
         /\ hashed' = r.calls
         /\ last' = [op |-> "hash", err |-> r.err, pre |-> cert, arg |-> NULL,
                     what |-> what]
         /\ UNCHANGED <<cert, alive, heap, algVars, cmsVars, keyVars>>

\* ksba_cert_release: xfree (cert) and nothing else.
ReleaseFrees == {"handle"}

ksba_cert_release ==
  /\ alive
  /\ alive' = FALSE
  /\ heap' = heap \ ReleaseFrees
  /\ last' = [op |-> "release", err |-> OK, pre |-> cert, arg |-> NULL,
              what |-> 0]
  /\ hashed' = <<>>
  /\ UNCHANGED <<cert, algVars, cmsVars, keyVars>>

\* The certificate handle right after ksba_cert_new.
FreshCert ==
  /\ cert = ksba_cert_new
  /\ alive = TRUE
  /\ heap = {"handle"}
  /\ last = NoCall
  /\ hashed = <<>>

\* No call into the AlgorithmIdentifier parser is under way.
IdleAlg ==
  /\ ain = <<>>
  /\ ares = <<>>
  /\ apc = "idle"

\* No CMS handle exists.
IdleCms ==
  /\ cin = <<>>
  /\ cms = <<>>
  /\ cres = <<>>

\* No call into the keyinfo codec is under way.
IdleKey ==
  /\ kin = <<>>
  /\ ksexp = <<>>
  /\ kder = <<>>
  /\ kpc = "idle"

InitCert == FreshCert /\ IdleAlg /\ IdleCms /\ IdleKey

NextCert ==
  \/ ksba_cert_read_der
  \/ ksba_cert_init_from_mem
  \/ ksba_cert_hash
  \/ ksba_cert_release

SpecCert == InitCert /\ [][NextCert]_vars


(***************************************************************************)
(* Claims about the certificate facade, checked under SpecCert.            *)
(***************************************************************************)

\* The four fields a populated handle must keep.
Populated(c) == <<c.initialized, c.root, c.image, c.imagelen>>

LaterParse ==
  /\ last.op \in {"read_der", "init_from_mem"}
  /\ last.pre.initialized

\* C1 as stated: once ksba_cert_read_der / ksba_cert_init_from_mem has
\* succeeded on a handle, every later call of either returns Conflict and
\* leaves initialized, root, image and imagelen as they were.
C1_EveryLaterCallConflicts ==
  LaterParse =>
    /\ last.err = "KSBA_Conflict"
    /\ Populated(cert) = Populated(last.pre)

\* C1 as amended: every later call leaves initialized, root, image and
\* imagelen as they were; it returns Conflict when it gets as far as the
\* handle (ksba_cert_read_der with a reader, ksba_cert_init_from_mem once
\* its reader is built), Invalid_Value when ksba_cert_read_der is given
\* no reader, and the reader's error when ksba_cert_init_from_mem cannot
\* build its reader.
C1_LaterCallsLeaveHandle ==
  LaterParse =>
    /\ Populated(cert) = Populated(last.pre)
    /\ last.arg = "reader" => last.err = "KSBA_Conflict"
    /\ last.arg = NULL => last.err = "KSBA_Invalid_Value"
    /\ last.arg = "oom" => last.err = "KSBA_Out_Of_Core"
    /\ last.arg = "set_mem" => last.err = "KSBA_Invalid_Value"

C1_Witness ==
  /\ LaterParse
  /\ last.arg = "reader"
  /\ last.err = "KSBA_Conflict"
  /\ cert.imagelen > 0

\* The bytes [off, off + nhdr + len) of the image, one by one.
NodeBytes(c, n) == [i \in 1..(n.nhdr + n.len) |-> c.image[n.off + i]]

\* The node WHAT stands for: 1 is the to-be-signed part, 0 the whole.
HashedNode(c, what) ==
  IF what = 1 THEN c.root.tbsCertificate ELSE c.root.Certificate

\* C2: on an initialized certificate ksba_cert_hash calls the hasher
\* exactly once, with the image bytes [off, off+nhdr+len) of
\* Certificate.tbsCertificate for what = tbs (1) and of Certificate for
\* what = whole (0); on an uninitialized handle it returns No_Data, on a
\* missing node or a node with off = -1 No_Value, and then the hasher is
\* never called.
C2_HashFeedsNodeBytes ==
  (last.op = "hash" /\ last.what \in {0, 1}) =>
    LET n == HashedNode(last.pre, last.what) IN
      /\ ~last.pre.initialized =>
           last.err = "KSBA_No_Data" /\ hashed = <<>>
      /\ (last.pre.initialized /\ (n = NullNode \/ n.off = -1)) =>
           last.err = "KSBA_No_Value" /\ hashed = <<>>
      /\ (last.pre.initialized /\ n # NullNode /\ n.off # -1) =>
           last.err = OK /\ hashed = << NodeBytes(last.pre, n) >>

C2_Witness ==
  /\ last.op = "hash"
  /\ last.what = 1
  /\ last.pre.initialized
  /\ last.pre.root.tbsCertificate.off = 1
  /\ last.pre.root.tbsCertificate # last.pre.root.Certificate
  /\ Len(hashed) = 1
  /\ Len(hashed[1]) = 1


(***************************************************************************)
(*                 Words, bytes and the external converters                *)
(***************************************************************************)

\* An unsigned long is WordOctets octets wide.  The model keeps such a
\* word as the sequence of its octets, most significant first, while it
\* is shifted together, and as a number once it is compared with a buffer
\* length: every value of ULongHuge or more is kept as ULongHuge, which
\* is more than any buffer of the model holds.
WordOctets == 8
ULongHuge == 16777216

ZeroWord == [i \in 1..WordOctets |-> 0]

\* len <<= 8; len |= c & 0xff;
ShiftIn(w, c) == [i \in 1..WordOctets |-> IF i < WordOctets THEN w[i + 1] ELSE c]

WordValue(w) ==
  IF \E i \in 1..(WordOctets - 3) : w[i] # 0 THEN ULongHuge
  ELSE (w[WordOctets - 2] * 256 + w[WordOctets - 1]) * 256 + w[WordOctets]

\* a - b on unsigned long: below zero it wraps to a value at the top of
\* the range, and a value there stays there when a buffer length is
\* taken from it.
USub(a, b) ==
  IF a >= ULongHuge THEN ULongHuge
  ELSE IF a >= b THEN a - b
  ELSE ULongHuge

RECURSIVE ToDec(_)
\* snprintf "%lu": the decimal digits of n as ASCII codes.
ToDec(n) == IF n < 10 THEN << 48 + n >> ELSE ToDec(n \div 10) \o << 48 + (n % 10) >>

digitp(c) == c >= 48 /\ c <= 57

\* s[i] of a C string: behind its last byte stands the terminating NUL.
At(s, i) == IF i >= 1 /\ i <= Len(s) THEN s[i] ELSE 0

RECURSIVE JoinDots(_)
JoinDots(arcs) ==
  IF Len(arcs) = 0 THEN <<>>
  ELSE IF Len(arcs) = 1 THEN ToDec(arcs[1])
  ELSE ToDec(arcs[1]) \o <<46>> \o JoinDots(Tail(arcs))

RECURSIVE SubIds(_, _, _)
\* The subidentifiers of an OID value: base 128, the top bit of an octet
\* says that another octet of the same subidentifier follows.
SubIds(b, i, acc) ==
  IF i > Len(b) THEN <<>>
  ELSE LET v == acc * 128 + (b[i] % 128) IN
    IF b[i] >= 128 THEN SubIds(b, i + 1, v)
    ELSE <<v>> \o SubIds(b, i + 1, 0)

\* The arcs of an OID value: the first subidentifier holds two arcs.
OidArcs(b) ==
  LET ids == SubIds(b, 1, 0) IN
    IF Len(ids) = 0 THEN <<>>
    ELSE LET f == ids[1] IN
      (IF f < 40 THEN <<0, f>>
       ELSE IF f < 80 THEN <<1, f - 40>>
       ELSE <<2, f - 80>>) \o Tail(ids)

\* ksba_oid_to_str: the dotted decimal string of an OID value.
ksba_oid_to_str(b) == JoinDots(OidArcs(b))

RECURSIVE Base128(_)
Base128(n) ==
  IF n < 128 THEN <<n>>
  ELSE LET hi == Base128(n \div 128) IN
    [i \in 1..Len(hi) |-> IF hi[i] < 128 THEN hi[i] + 128 ELSE hi[i]]
      \o << n % 128 >>

RECURSIVE ParseArcs(_, _, _, _)
\* The numbers of a dotted decimal string; <<-1>> for a string that is
\* not one.  cur is the number being read, -1 between numbers.
ParseArcs(t, i, cur, acc) ==
  IF i > Len(t) THEN (IF cur < 0 THEN <<-1>> ELSE Append(acc, cur))
  ELSE IF digitp(t[i])
    THEN ParseArcs(t, i + 1, (IF cur < 0 THEN 0 ELSE cur * 10) + (t[i] - 48), acc)
  ELSE IF t[i] = 46 /\ cur >= 0 THEN ParseArcs(t, i + 1, -1, Append(acc, cur))
  ELSE <<-1>>

RECURSIVE EncodeArcs(_)
EncodeArcs(arcs) ==
  IF Len(arcs) = 0 THEN <<>> ELSE Base128(arcs[1]) \o EncodeArcs(Tail(arcs))

\* _ksba_oid_from_buf: the OID value of a dotted decimal string; err is
\* set for a string that is no OID.
_ksba_oid_from_buf(t) ==
  LET arcs == ParseArcs(t, 1, -1, <<>>) IN
    IF Len(arcs) < 2 \/ arcs[1] < 0 \/ arcs[1] > 2
       \/ (arcs[1] < 2 /\ arcs[2] > 39)
      THEN [err |-> "GPG_ERR_INV_OID_STRING", oid |-> <<>>]
    ELSE [err |-> OK,
          oid |-> Base128(arcs[1] * 40 + arcs[2]) \o EncodeArcs(SubSeq(arcs, 3, Len(arcs)))]

(***************************************************************************)
(*              C.  The AlgorithmIdentifier parser (keyinfo.c)             *)
(***************************************************************************)

TYPE_INTEGER == 2
TYPE_BIT_STRING == 3
TYPE_OCTET_STRING == 4
TYPE_NULL == 5
TYPE_OBJECT_ID == 6
TYPE_SEQUENCE == 16

RECURSIVE LengthOctets(_, _, _, _)
\* The loop of TLV_LENGTH over count length octets from offset p.
LengthOctets(b, p, count, w) ==
  IF count = 0 THEN [err |-> OK, len |-> WordValue(w), p |-> p]
  ELSE IF p >= Len(b) THEN [err |-> "GPG_ERR_BAD_BER", len |-> 0, p |-> p]
  ELSE LengthOctets(b, p + 1, count - 1, ShiftIn(w, b[p + 1]))

\* TLV_LENGTH without its last test.
TLV_LENGTH_fits_wrong(b, r) == r

\* The last test of TLV_LENGTH, on the length r read: len > derlen.
TLV_LENGTH_fits(b, r) ==
  IF r.err # OK THEN r
  ELSE IF r.len > Len(b) - r.p
    THEN [err |-> "GPG_ERR_INV_KEYINFO", len |-> r.len, p |-> r.p]
  ELSE r

\* The macro TLV_LENGTH with der at offset p of the buffer b, whose end is
\* the end of the buffer (derlen = Len(b) - p): the length read and the
\* offset behind the length octets.
TLV_LENGTH(b, p) ==
  IF p >= Len(b) THEN [err |-> "GPG_ERR_INV_KEYINFO", len |-> 0, p |-> p]
  ELSE IF b[p + 1] = 128 THEN [err |-> "GPG_ERR_NOT_DER_ENCODED", len |-> 0, p |-> p + 1]
  ELSE IF b[p + 1] = 255 THEN [err |-> "GPG_ERR_BAD_BER", len |-> 0, p |-> p + 1]
  ELSE IF b[p + 1] < 128 THEN TLV_LENGTH_fits(b, [err |-> OK, len |-> b[p + 1], p |-> p + 1])
  ELSE TLV_LENGTH_fits(b, LengthOctets(b, p + 1, b[p + 1] % 128, ZeroWord))

AlgoFail(e) ==
  [err |-> e, nread |-> 0, pos |-> 0, len |-> 0, bitstr |-> 0,
   parm_pos |-> 0, parm_len |-> 0, parm_type |-> 0]

\* What the parameter part of get_algorithm leaves: der, seqlen and the
\* three results about the parameter.
ParmResult(err, p, seqlen, pos, len, type) ==
  [err |-> err, p |-> p, seqlen |-> seqlen, parm_pos |-> pos, parm_len |-> len,
   parm_type |-> type]

\* *r_parm_type for the tag c of a parameter that is not NULL.
ParmType(c, want) ==
  IF ~want THEN 0
  ELSE IF c = 4 THEN TYPE_OCTET_STRING
  ELSE IF c = 6 THEN TYPE_OBJECT_ID
  ELSE IF c = 48 THEN TYPE_SEQUENCE
  ELSE 0

\* get_algorithm for a parameter that is not NULL, whose tag is at offset
\* p and whose length octets gave t.
get_algorithm_parm_tlv(p, seqlen, type, t) ==
  IF t.err # OK THEN ParmResult(t.err, t.p, seqlen, 0, 0, type)
  ELSE ParmResult(OK, t.p + t.len, USub(USub(seqlen, t.p - p), t.len),
                  IF type = TYPE_SEQUENCE THEN p ELSE IF type # 0 THEN t.p ELSE 0,
                  IF type = TYPE_SEQUENCE THEN t.len + (t.p - p)
                  ELSE IF type # 0 THEN t.len ELSE 0,
                  type)

\* get_algorithm from "Parse the parameter" on: der is at offset p, which
\* is where the parameter starts.  want says that the caller passed
\* r_parm_pos and r_parm_len.
get_algorithm_parm(b, p, seqlen, want) ==
  IF seqlen = 0 THEN ParmResult(OK, p, 0, 0, 0, 0)
  ELSE IF p >= Len(b) THEN ParmResult("GPG_ERR_INV_KEYINFO", p, seqlen, 0, 0, 0)
  ELSE IF b[p + 1] = 5
    THEN IF p + 1 >= Len(b)
           THEN ParmResult("GPG_ERR_INV_KEYINFO", p + 1, seqlen, 0, 0, 0)
         ELSE IF b[p + 2] # 0
           THEN ParmResult("GPG_ERR_BAD_BER", p + 2, seqlen, 0, 0, 0)
         ELSE ParmResult(OK, p + 2, USub(seqlen, 2), 0, 0, 0)
  ELSE get_algorithm_parm_tlv(p, seqlen, ParmType(b[p + 1], want), TLV_LENGTH(b, p + 1))

\* What get_algorithm hands out when it succeeds: o is the length read
\* for the OID, pm what the parameter part left.
AlgoFound(o, pm, nread, bitstr) ==
  [err |-> OK, nread |-> nread, pos |-> o.p, len |-> o.len, bitstr |-> bitstr,
   parm_pos |-> pm.parm_pos, parm_len |-> pm.parm_len, parm_type |-> pm.parm_type]

\* get_algorithm in mode 1 behind the tag of the value, whose length
\* octets gave v.
get_algorithm_value(b, o, pm, v) ==
  IF v.err # OK THEN AlgoFail(v.err)
  ELSE AlgoFound(o, pm, v.p, IF b[pm.p + 1] = 3 THEN 1 ELSE 0)

\* get_algorithm behind the parameter.
get_algorithm_rest(mode, b, o, pm) ==
  IF pm.err # OK THEN AlgoFail(pm.err)
  ELSE IF pm.seqlen # 0 THEN AlgoFail("GPG_ERR_INV_KEYINFO")
  ELSE IF mode = 0 THEN AlgoFound(o, pm, pm.p, 0)
  ELSE IF pm.p >= Len(b) THEN AlgoFail("GPG_ERR_INV_KEYINFO")
  ELSE IF b[pm.p + 1] # 3 /\ b[pm.p + 1] # 4 THEN AlgoFail("GPG_ERR_UNEXPECTED_TAG")
  ELSE get_algorithm_value(b, o, pm, TLV_LENGTH(b, pm.p + 1))

\* get_algorithm behind the length octets of the OID, which gave o; s is
\* what the length octets of the SEQUENCE gave.
get_algorithm_oid(mode, b, want, s, o) ==
  IF o.err # OK THEN AlgoFail(o.err)
  ELSE get_algorithm_rest(mode, b, o,
         get_algorithm_parm(b, o.p + o.len, USub(s.len, (o.p + o.len) - s.p), want))

\* get_algorithm behind the length octets of the SEQUENCE, which gave s.
get_algorithm_seq(mode, b, want, s) ==
  IF s.err # OK THEN AlgoFail(s.err)
  ELSE IF s.p >= Len(b) THEN AlgoFail("GPG_ERR_INV_KEYINFO")
  ELSE IF b[s.p + 1] # 6 THEN AlgoFail("GPG_ERR_UNEXPECTED_TAG")
  ELSE get_algorithm_oid(mode, b, want, s, TLV_LENGTH(b, s.p + 1))

\* get_algorithm on the buffer b of derlen = Len(b) bytes.
get_algorithm(mode, b, want) ==
  IF Len(b) = 0 THEN AlgoFail("GPG_ERR_INV_KEYINFO")
  ELSE IF b[1] # 48 THEN AlgoFail("GPG_ERR_UNEXPECTED_TAG")
  ELSE get_algorithm_seq(mode, b, want, TLV_LENGTH(b, 1))


NoOid == [null |-> TRUE, str |-> <<>>]
NoParm == [null |-> TRUE, bytes |-> <<>>]

\* What _ksba_parse_algorithm_identifier2 hands out.
AlgId(err, nread, oid, parm) == [err |-> err, nread |-> nread, oid |-> oid, parm |-> parm]

\* The dotted string the ecdsa-with-specified hack compares with.
EcdsaWithSpecified == JoinDots(<<1, 2, 840, 10045, 4, 3>>)

\* The hack for ecdsaWithSpecified left out.
IsSpecifiedEcdsa_never(a, str) == FALSE

\* The test of the hack for ecdsaWithSpecified: a is what get_algorithm
\* found, str the OID as a string.
IsSpecifiedEcdsa(a, str) ==
  /\ a.parm_pos # 0
  /\ a.parm_len # 0
  /\ a.parm_type = TYPE_SEQUENCE
  /\ str = EcdsaWithSpecified

\* The end of _ksba_parse_algorithm_identifier2: the copy of the
\* parameter at off2 with len2 bytes.
parse_algorithm_identifier2_parm(b, wantparm, oom, nread, oid, off2, len2) ==
  IF wantparm /\ off2 # 0 /\ len2 # 0
    THEN IF oom = "parm" THEN AlgId("GPG_ERR_ENOMEM", nread, NoOid, NoParm)
         ELSE AlgId(OK, nread, [null |-> FALSE, str |-> oid],
                    [null |-> FALSE, bytes |-> Slice(b, off2, len2)])
  ELSE AlgId(OK, nread, [null |-> FALSE, str |-> oid], NoParm)

\* The hack: in is what get_algorithm found in the parameter.
parse_algorithm_identifier2_hack(b, wantparm, oom, a, in) ==
  IF in.err # OK THEN AlgId(in.err, 0, NoOid, NoParm)
  ELSE IF oom = "oid2" THEN AlgId("GPG_ERR_ENOMEM", 0, NoOid, NoParm)
  ELSE parse_algorithm_identifier2_parm(b, wantparm, oom, a.nread,
         ksba_oid_to_str(Slice(b, a.parm_pos + in.pos, in.len)), 0, 0)

\* _ksba_parse_algorithm_identifier2 with the OID as the string str.
parse_algorithm_identifier2_oid(b, wantparm, oom, a, str) ==
  IF IsSpecifiedEcdsa(a, str)
    THEN parse_algorithm_identifier2_hack(b, wantparm, oom, a,
           get_algorithm(0, Slice(b, a.parm_pos, a.parm_len), FALSE))
  ELSE parse_algorithm_identifier2_parm(b, wantparm, oom, a.nread, str,
                                        a.parm_pos, a.parm_len)

\* _ksba_parse_algorithm_identifier2 behind get_algorithm, which gave a.
parse_algorithm_identifier2_algo(b, wantparm, oom, a) ==
  IF a.err # OK THEN AlgId(a.err, 0, NoOid, NoParm)
  ELSE IF oom = "oid" THEN AlgId("GPG_ERR_ENOMEM", a.nread, NoOid, NoParm)
  ELSE parse_algorithm_identifier2_oid(b, wantparm, oom, a,
                                       ksba_oid_to_str(Slice(b, a.pos, a.len)))

\* _ksba_parse_algorithm_identifier2 with r_nread given.  wantparm says
\* that r_parm and r_parmlen are given, oom names the allocation that
\* fails: "oid" (the first ksba_oid_to_str), "oid2" (the one of the
\* hack), "parm" (xtrymalloc of the parameter copy) or "none".
parse_algorithm_identifier2(b, wantparm, oom) ==
  parse_algorithm_identifier2_algo(b, wantparm, oom, get_algorithm(0, b, TRUE))

\* _ksba_parse_algorithm_identifier: the same without r_parm, r_parmlen.
parse_algorithm_identifier(b, oom) == parse_algorithm_identifier2(b, FALSE, oom)


(***************************************************************************)
(* The inputs of the AlgorithmIdentifier parser: a SEQUENCE header, an     *)
(* OID, a parameter and bytes that follow in the buffer, built here from   *)
(* their parts so that a claim can speak about the parts.                  *)
(***************************************************************************)
MaxParm == 2       \* longest value of an OCTET STRING parameter
MaxTrail == 2      \* most bytes that follow the AlgorithmIdentifier

OidChoices ==
  { [arcs |-> <<1, 2, 840, 10045, 4, 3>>, bytes |-> <<42, 134, 72, 206, 61, 4, 3>>],
    [arcs |-> <<2, 16, 840, 1, 101, 3, 4, 2, 1>>,
     bytes |-> <<96, 134, 72, 1, 101, 3, 4, 2, 1>>],
    [arcs |-> <<1, 3>>, bytes |-> <<43>>] }

TLV(tag, value) == <<tag, Len(value)>> \o value

\* A parameter: its kind, its bytes, the bytes the parser is to hand out
\* for it, and for a SEQUENCE that starts with an OID the arcs of that.
Parm(kind, tlv, value, x) == [kind |-> kind, tlv |-> tlv, value |-> value, x |-> x]

ParmChoices ==
  { Parm("none", <<>>, <<>>, <<>>),
    Parm("null", <<5, 0>>, <<>>, <<>>),
    Parm("null1", <<5, 1, 0>>, <<>>, <<>>),
    Parm("other", <<19, 1, 65>>, <<>>, <<>>),
    Parm("ndef", <<4, 128>>, <<>>, <<>>),
    Parm("oid", TLV(6, <<43>>), <<43>>, <<>>),
    Parm("seq_null", TLV(48, <<5, 0>>), TLV(48, <<5, 0>>), <<>>),
    Parm("seq_oid_2", TLV(48, TLV(6, <<43>>) \o <<5, 0, 5, 0>>),
         TLV(48, TLV(6, <<43>>) \o <<5, 0, 5, 0>>), <<1, 3>>) }
  \cup { Parm("octets", TLV(4, [i \in 1..n |-> 160 + i]),
              [i \in 1..n |-> 160 + i], <<>>) : n \in 0..MaxParm }
  \cup { Parm("seq_oid", TLV(48, TLV(6, o.bytes)), TLV(48, TLV(6, o.bytes)), o.arcs) :
           o \in OidChoices }
  \cup { Parm("seq_oid_1", TLV(48, TLV(6, o.bytes) \o <<5, 0>>),
              TLV(48, TLV(6, o.bytes) \o <<5, 0>>), o.arcs) : o \in OidChoices }

RECURSIVE SeqsUpTo(_, _)
\* The sequences over the set S of length n or less.
SeqsUpTo(S, n) ==
  IF n = 0 THEN { <<>> }
  ELSE LET shorter == SeqsUpTo(S, n - 1) IN
    shorter \cup { Append(q, x) : q \in shorter, x \in S }

Trails == SeqsUpTo({5, 1}, MaxTrail)

\* The AlgorithmIdentifier with the given parts.  delta is added to the
\* length the SEQUENCE header declares, long asks for a length in the
\* long form with one octet.
AlgInput(outerTag, long, delta, oidTag, oid, parm, trail, oom) ==
  LET content == TLV(oidTag, oid.bytes) \o parm.tlv
      declared == Len(content) + delta
      hdr == IF long THEN <<outerTag, 129, declared>> ELSE <<outerTag, declared>>
  IN [der |-> hdr \o content \o trail, nhdr |-> Len(hdr), declared |-> declared,
      filled |-> Len(content), outerTag |-> outerTag, oidTag |-> oidTag,
      oid |-> oid, parm |-> parm, trail |-> trail, oom |-> oom]

AlgInputs ==
  { AlgInput(tags[1], long, delta, tags[2], oid, parm, trail, oom) :
      tags \in {<<48, 6>>, <<49, 6>>, <<48, 4>>}, long \in BOOLEAN,
      delta \in {-1, 0, 1}, oid \in OidChoices, parm \in ParmChoices,
      trail \in Trails, oom \in {"none", "oid", "oid2", "parm"} }

NoAlgResult == [err |-> OK, nread |-> 0, oid |-> NoOid, parm |-> NoParm]

\* A caller hands the buffer to _ksba_parse_algorithm_identifier2.
ParseAlgorithmIdentifier2 ==
  /\ apc = "input"
  /\ ares' = parse_algorithm_identifier2(ain.der, TRUE, ain.oom)
  /\ apc' = "identifier2"
  /\ UNCHANGED <<ain, certVars, cmsVars, keyVars>>

\* A caller hands the buffer to _ksba_parse_algorithm_identifier.
ParseAlgorithmIdentifier ==
  /\ apc = "input"
  /\ ares' = parse_algorithm_identifier(ain.der, ain.oom)
  /\ apc' = "identifier"
  /\ UNCHANGED <<ain, certVars, cmsVars, keyVars>>

InitAlg ==
  /\ FreshCert
  /\ IdleCms
  /\ IdleKey
  /\ ain \in AlgInputs
  /\ ares = NoAlgResult
  /\ apc = "input"

NextAlg ==
  \/ ParseAlgorithmIdentifier2
  \/ ParseAlgorithmIdentifier

SpecAlg == InitAlg /\ [][NextAlg]_vars

(***************************************************************************)
(* Claims about the AlgorithmIdentifier parser, checked under SpecAlg.     *)
(***************************************************************************)

AlgReturned == apc \in {"identifier", "identifier2"}

\* The input is a SEQUENCE of an OID and a parameter that the header's
\* length covers exactly.
AlgExact ==
  /\ ain.outerTag = 48
  /\ ain.oidTag = 6
  /\ ain.declared = ain.filled

IsEcdsaWithSpecified(o) == o.arcs = <<1, 2, 840, 10045, 4, 3>>

C10_NreadIsWholeSequence ==
  AlgReturned =>
    /\ ares.err = OK => ares.nread = ain.nhdr + ain.declared
    /\ (ain.outerTag = 48 /\ ain.oidTag = 6 /\ ain.declared # ain.filled) =>
         ares.err = "GPG_ERR_INV_KEYINFO"
    /\ ares.err # OK => ares.nread = 0

\* The part of C10 that the code keeps: the length reported on success.
C10_NreadOnSuccess ==
  (AlgReturned /\ ares.err = OK) =>
    /\ ares.nread = ain.nhdr + ain.declared
    /\ ain.declared = ain.filled

C10_FailureKeepsNread ==
  /\ AlgReturned
  /\ ares.err = "GPG_ERR_ENOMEM"
  /\ ares.nread # 0

(***************************************************************************)
(*              D.  The outer ContentInfo parser (cms-parser.c)            *)
(*                                                                         *)
(* The reader is the byte sequence cin.der and a position in it.  The TLV  *)
(* reader _ksba_ber_read_tl is not among the sources at hand; it follows   *)
(* the TLV reader of the design (section 4.A).                             *)
(***************************************************************************)
CLASS_UNIVERSAL == 0
CLASS_CONTEXT == 2
OidBufSize == 100      \* DIM(oidbuf)

TagInfo(class, tag, cons, ndef, length, nhdr) ==
  [err |-> OK, class |-> class, tag |-> tag, is_constructed |-> cons,
   ndef |-> ndef, length |-> length, nhdr |-> nhdr]

TagInfoFail(e) ==
  [err |-> e, class |-> 0, tag |-> 0, is_constructed |-> FALSE,
   ndef |-> FALSE, length |-> 0, nhdr |-> 0]

RECURSIVE LongTag(_, _, _)
\* The continuation octets of a tag of more than one octet, seven bits
\* each, from offset p: the tag and the offset behind it.
LongTag(b, p, tag) ==
  IF p >= Len(b) THEN [ok |-> FALSE, tag |-> tag, p |-> p]
  ELSE IF b[p + 1] >= 128
    THEN LongTag(b, p + 1, Min(tag * 128 + (b[p + 1] % 128), ULongHuge))
  ELSE [ok |-> TRUE, tag |-> Min(tag * 128 + (b[p + 1] % 128), ULongHuge), p |-> p + 1]

\* The long form of a length, whose octets gave r; the header began at p.
read_tl_long(p, class, tag, cons, r) ==
  IF r.err # OK THEN TagInfoFail("KSBA_BER_Error")
  ELSE TagInfo(class, tag, cons, FALSE, r.len, r.p - p)

\* The length octets of a header that began at p and whose identifier
\* octets gave t.
read_tl_length(b, p, class, cons, t) ==
  IF ~t.ok \/ t.p >= Len(b) THEN TagInfoFail("KSBA_BER_Error")
  ELSE IF b[t.p + 1] < 128
    THEN TagInfo(class, t.tag, cons, FALSE, b[t.p + 1], t.p + 1 - p)
  ELSE IF b[t.p + 1] = 128 /\ cons
    THEN TagInfo(class, t.tag, cons, TRUE, 0, t.p + 1 - p)
  ELSE IF b[t.p + 1] = 255 THEN TagInfoFail("KSBA_BAD_BER")
  ELSE read_tl_long(p, class, t.tag, cons,
                    LengthOctets(b, t.p + 1, b[t.p + 1] % 128, ZeroWord))

\* One identifier octet and the length octets that follow it, read at
\* offset p.  The end of the input before the first octet is KSBA_EOF (-1),
\* inside the header it is a BER error.
_ksba_ber_read_tl(b, p) ==
  IF p >= Len(b) THEN TagInfoFail("KSBA_EOF")
  ELSE read_tl_length(b, p, b[p + 1] \div 64, (b[p + 1] \div 32) % 2 = 1,
         IF b[p + 1] % 32 = 31 THEN LongTag(b, p + 1, 0)
         ELSE [ok |-> TRUE, tag |-> b[p + 1] % 32, p |-> p + 1])

\* read_buffer: count bytes from offset p, or -1 when the reader fails.
read_buffer(b, p, count) ==
  IF p + count > Len(b) THEN [err |-> "KSBA_EOF", bytes |-> <<>>]
  ELSE [err |-> OK, bytes |-> Slice(b, p, count)]

\* What parse_content_info hands back: the error, the four results, the
\* reader's position, and whether it leaves an OID string allocated that
\* no result points to.
ContentResult(err, len, ndef, oid, has, p, lost) ==
  [err |-> err, len |-> len, ndef |-> ndef, oid |-> oid, has_content |-> has,
   pos |-> p, lost |-> lost]

ContentFail(e, p) == ContentResult(e, 0, FALSE, NoOid, FALSE, p, FALSE)

\* parse_content_info behind the header ti of the explicit tag 0, which
\* ended at q.
parse_content_tag0(q, content_ndef, content_len, oid, ti) ==
  IF ti.err # OK THEN ContentFail(ti.err, q)
  ELSE IF ~(ti.class = CLASS_CONTEXT /\ ti.tag = 0 /\ ti.is_constructed)
          /\ ~(ti.class = CLASS_UNIVERSAL /\ ti.tag = 0 /\ ~ti.is_constructed)
    THEN ContentFail("KSBA_Invalid_CMS_Object", q + ti.nhdr)
  ELSE IF ~content_ndef /\ content_len < ti.nhdr
    THEN ContentResult("KSBA_BER_Error", 0, FALSE, NoOid, FALSE, q + ti.nhdr, TRUE)
  ELSE IF ~content_ndef /\ ~ti.ndef /\ content_len - ti.nhdr < ti.length
    THEN ContentResult("KSBA_BER_Error", 0, FALSE, NoOid, FALSE, q + ti.nhdr, TRUE)
  ELSE ContentResult(OK, IF content_ndef THEN content_len ELSE content_len - ti.nhdr,
                     content_ndef, oid,
                     ti.class = CLASS_CONTEXT /\ ti.tag = 0 /\ ti.is_constructed,
                     q + ti.nhdr, FALSE)

\* parse_content_info behind the OID, whose value ended at p.
parse_content_rest(b, p, content_ndef, content_len, oid) ==
  IF ~content_ndef /\ content_len = 0
    THEN ContentResult(OK, content_len, content_ndef, oid, FALSE, p, FALSE)
  ELSE parse_content_tag0(p, content_ndef, content_len, oid, _ksba_ber_read_tl(b, p))

\* parse_content_info behind read_buffer, which gave rb for the OID.
parse_content_oid_value(b, p, oom, content_ndef, content_len, rb) ==
  IF rb.err # OK THEN ContentFail(rb.err, p)
  ELSE IF oom = "oid" THEN ContentFail("KSBA_Out_Of_Core", p + Len(rb.bytes))
  ELSE parse_content_rest(b, p + Len(rb.bytes), content_ndef, content_len,
                          [null |-> FALSE, str |-> ksba_oid_to_str(rb.bytes)])

\* parse_content_info behind the header ti of the OID, which began at p;
\* seqlen and content_ndef are those of the SEQUENCE.
parse_content_oid(b, p, oom, content_ndef, seqlen, ti) ==
  IF ti.err # OK THEN ContentFail(ti.err, p)
  ELSE IF ~(ti.class = CLASS_UNIVERSAL /\ ti.tag = TYPE_OBJECT_ID
            /\ ~ti.is_constructed /\ ti.length # 0)
    THEN ContentFail("KSBA_Invalid_CMS_Object", p + ti.nhdr)
  ELSE IF ~content_ndef /\ seqlen < ti.nhdr
    THEN ContentFail("KSBA_BER_Error", p + ti.nhdr)
  ELSE IF ~content_ndef /\ seqlen - ti.nhdr < ti.length
    THEN ContentFail("KSBA_BER_Error", p + ti.nhdr)
  ELSE IF ti.length >= OidBufSize
    THEN ContentFail("KSBA_Object_Too_Large", p + ti.nhdr)
  ELSE parse_content_oid_value(b, p + ti.nhdr, oom, content_ndef,
         IF content_ndef THEN seqlen ELSE seqlen - ti.nhdr - ti.length,
         read_buffer(b, p + ti.nhdr, ti.length))

\* parse_content_info behind the header ti of the SEQUENCE, which began
\* at p.
parse_content_seq(b, p, oom, ti) ==
  IF ti.err # OK THEN ContentFail(ti.err, p)
  ELSE IF ~(ti.class = CLASS_UNIVERSAL /\ ti.tag = TYPE_SEQUENCE /\ ti.is_constructed)
    THEN ContentFail("KSBA_Invalid_CMS_Object", p + ti.nhdr)
  ELSE IF ~ti.ndef /\ ti.length < 3
    THEN ContentFail("KSBA_Object_Too_Short", p + ti.nhdr)
  ELSE parse_content_oid(b, p + ti.nhdr, oom, ti.ndef, ti.length,
                         _ksba_ber_read_tl(b, p + ti.nhdr))

\* parse_content_info with the reader at offset p of b.  oom = "oid" lets
\* ksba_oid_to_str run out of memory.
parse_content_info(b, p, oom) == parse_content_seq(b, p, oom, _ksba_ber_read_tl(b, p))

\* The recoding of the inner error at the outermost call, without the
\* "too short" case.
NoCmsObject_wrong(err) ==
  IF err \in {"KSBA_BER_Error", "KSBA_Invalid_CMS_Object"}
    THEN "KSBA_No_CMS_Object"
  ELSE err

\* The recoding of the inner error at the outermost call.
NoCmsObject(err) ==
  IF err \in {"KSBA_BER_Error", "KSBA_Invalid_CMS_Object", "KSBA_Object_Too_Short"}
    THEN "KSBA_No_CMS_Object"
  ELSE err

\* _ksba_cms_parse_content_info behind parse_content_info, which gave r.
cms_parse_content_result(c, r) ==
  IF r.err # OK
    THEN [err |-> NoCmsObject(r.err), cms |-> [c EXCEPT !.pos = r.pos], inner |-> r,
          lost |-> IF r.lost THEN 1 ELSE 0]
  ELSE IF ~r.has_content
    THEN [err |-> "KSBA_No_CMS_Object", cms |-> [c EXCEPT !.pos = r.pos],
          inner |-> r, lost |-> 1]
  ELSE [err |-> OK,
        cms |-> [content |-> [oid |-> r.oid, length |-> r.len, ndef |-> r.ndef],
                 pos |-> r.pos],
        inner |-> r, lost |-> 0]

\* _ksba_cms_parse_content_info on the handle c, whose reader stands at
\* c.pos of the bytes b: the error, the handle afterwards, what the inner
\* parser returned, and the number of OID strings left without an owner.
cms_parse_content_info(c, b, oom) ==
  cms_parse_content_result(c, parse_content_info(b, c.pos, oom))

(***************************************************************************)
(* The inputs of the ContentInfo parser: blobs of BlobLen bytes made of an *)
(* outer header, an OID and a content header, each of them sound or        *)
(* broken in one way.  defects names what keeps the blob from being the    *)
(* start of a well-formed ContentInfo.                                     *)
(***************************************************************************)
BlobLen == 10      \* bytes behind the reader
MaxCalls == 2      \* calls of the parser on one handle

OuterTags == {48, 49, 16}
OuterKinds == {"ndef", "exact", "long", "short", "two", "ff"}
OidTags == {6, 38, 4}
OidKinds == {"ok", "zero", "big", "ff", "over"}
ContentKinds ==
  {"ctx_ndef", "ctx_exact", "ctx_ff", "ctx_over", "nul", "seq", "ctx_prim", "absent"}

OidTlv(tag, kind) ==
  CASE kind = "ok"   -> <<tag, 3, 42, 3, 4>>
    [] kind = "zero" -> <<tag, 0>>
    [] kind = "big"  -> <<tag, OidBufSize, 42, 3, 4>>
    [] kind = "ff"   -> <<tag, 255, 42, 3, 4>>
    [] kind = "over" -> <<tag, 9, 42, 3, 4>>

CmsInput(ot, ok, it, ik, ck) ==
  LET oidTlv == OidTlv(it, ik)
      hdrLen == IF ok = "long" THEN 3 ELSE 2
      room == BlobLen - hdrLen - Len(oidTlv) - (IF ck = "absent" THEN 0 ELSE 2)
      body == [i \in 1..room |-> 48]
      ch == CASE ck = "ctx_ndef"  -> <<160, 128>>
              [] ck = "ctx_exact" -> <<160, room>>
              [] ck = "ctx_ff"    -> <<160, 255>>
              [] ck = "ctx_over"  -> <<160, room + 5>>
              [] ck = "nul"       -> <<0, 0>>
              [] ck = "seq"       -> <<48, 128>>
              [] ck = "ctx_prim"  -> <<128, 0>>
              [] ck = "absent"    -> <<>>
      inner == oidTlv \o ch \o (IF ck = "absent" THEN <<>> ELSE body)
      declared == CASE ok \in {"exact", "long"} -> Len(inner)
                    [] ok = "short" -> Len(oidTlv) - 1
                    [] ok = "two"   -> 2
                    [] OTHER        -> 0
      hdr == CASE ok = "ndef" -> <<ot, 128>>
               [] ok = "ff"   -> <<ot, 255>>
               [] ok = "long" -> <<ot, 129, declared>>
               [] OTHER       -> <<ot, declared>>
      definite == ok \in {"exact", "long"}
  IN [der |-> hdr \o inner \o (IF ck = "absent" THEN body ELSE <<>>),
      outerTag |-> ot, outer |-> ok, oidTag |-> it, oid |-> ik, content |-> ck,
      declared |-> declared,
      defects |->
           (IF ot # 48 THEN {"outer tag"} ELSE {})
      \cup (IF ok \in {"ff", "two", "short"} THEN {"outer length"} ELSE {})
      \cup (IF it # 6 THEN {"oid tag"} ELSE {})
      \cup (IF ik \in {"zero", "ff"} \/ (ik \in {"big", "over"} /\ definite)
              THEN {"oid length"} ELSE {})
      \cup (IF ik = "ok" /\ ck \in {"seq", "ctx_prim"} THEN {"content tag"} ELSE {})
      \cup (IF ik = "ok" /\ (ck = "ctx_ff" \/ (ck = "ctx_over" /\ definite))
              THEN {"content length"} ELSE {})]

CmsInputs ==
  { CmsInput(c[1], c[2], c[3], c[4], c[5]) :
      c \in { d \in OuterTags \X OuterKinds \X OidTags \X OidKinds \X ContentKinds :
                d[5] = "absent" => d[2] \notin {"ndef", "ff"} } }

\* cms->content of a new handle, and of one that has parsed a ContentInfo.
FreshContent == [oid |-> NoOid, length |-> 0, ndef |-> FALSE]
EarlierContent ==
  [oid |-> [null |-> FALSE, str |-> JoinDots(<<1, 2, 840, 113549, 1, 7, 2>>)],
   length |-> 7, ndef |-> TRUE]

NoCmsCall ==
  [calls |-> 0, err |-> OK, oom |-> "none", inner |-> ContentFail(OK, 0),
   pre |-> FreshContent, lost |-> 0]

\* The handle and the record of the call once the parser returned r.
CmsReturned(oom, r) ==
  /\ cms' = r.cms
  /\ cres' = [calls |-> cres.calls + 1, err |-> r.err, oom |-> oom,
              inner |-> r.inner, pre |-> cms.content, lost |-> cres.lost + r.lost]

\* A caller runs _ksba_cms_parse_content_info on the handle; a second
\* call follows a first one that succeeded and goes on where it stopped.
_ksba_cms_parse_content_info ==
  /\ cres.calls < MaxCalls
  /\ cres.calls > 0 => cres.err = OK
  /\ \E oom \in {"none", "oid"} :
       CmsReturned(oom, cms_parse_content_info(cms, cin.der, oom))
  /\ UNCHANGED <<cin, certVars, algVars, keyVars>>

InitCms ==
  /\ FreshCert
  /\ IdleAlg
  /\ IdleKey
  /\ cin \in CmsInputs
  /\ cms \in { [content |-> c, pos |-> 0] : c \in {FreshContent, EarlierContent} }
  /\ cres = NoCmsCall

NextCms == _ksba_cms_parse_content_info

SpecCms == InitCms /\ [][NextCms]_vars

(***************************************************************************)
(* Claims about the ContentInfo parser, checked under SpecCms.             *)
(***************************************************************************)

\* C3: _ksba_cms_parse_content_info returns No_CMS_Object exactly when the
\* inner parse_content_info fails with BER_Error, Invalid_CMS_Object or
\* Object_Too_Short, or succeeds without [0] content; every other inner
\* error is returned unchanged; and on every error return content.oid,
\* content.length and content.ndef of the handle are as before the call.
C3_RecodesToNoCmsObject ==
  cres.calls > 0 =>
    /\ cres.err = "KSBA_No_CMS_Object" <=>
         \/ cres.inner.err \in {"KSBA_BER_Error", "KSBA_Invalid_CMS_Object",
                                "KSBA_Object_Too_Short"}
         \/ cres.inner.err = OK /\ ~cres.inner.has_content
    /\ (cres.inner.err # OK /\ cres.err # "KSBA_No_CMS_Object") =>
         cres.err = cres.inner.err
    /\ cres.err # OK => cms.content = cres.pre

C3_Witness ==
  /\ cres.calls = 1
  /\ cres.inner.err = "KSBA_Object_Too_Short"
  /\ cres.err = "KSBA_No_CMS_Object"
  /\ cres.pre = EarlierContent
  /\ cms.content = EarlierContent

\* C4 as stated: a blob of 10 bytes that is not the start of a well-formed
\* ContentInfo makes _ksba_cms_parse_content_info return No_CMS_Object
\* (with no allocation failing).
C4_BlobIsNoCmsObject ==
  (cres.calls = 1 /\ cres.oom = "none" /\ cin.defects # {}) =>
    cres.err = "KSBA_No_CMS_Object"

(***************************************************************************)
(*                 E.  The keyinfo codec (keyinfo.c)                       *)
(*                                                                         *)
(* An S-expression is the sequence of the bytes of its canonical form.     *)
(***************************************************************************)

\* A string pointer that is NULL.
NullStr == <<-1>>

\* The table of public key algorithms; the C index of an entry is one less
\* than its index here.
pk_algo_table == <<
    \* 1.2.840.113549.1.1.1 (rsa), keyinfo.c:84-87
    [oidstring |-> <<49, 46, 50, 46, 56, 52, 48, 46, 49, 49, 51, 53, 52, 57, 46, 49, 46, 49, 46, 49>>,
     oid |-> <<42, 134, 72, 134, 247, 13, 1, 1, 1>>, oidlen |-> 9,
     supported |-> 1, pkalgo |-> "PKALGO_RSA", algo_string |-> <<114, 115, 97>>,
     elem_string |-> <<45, 110, 101>>, ctrl_string |-> <<48, 2, 2>>,
     parmelem_string |-> NullStr, parmctrl_string |-> NullStr,
     digest_string |-> NullStr],
    \* 1.2.840.113549.1.1.7 (rsa), keyinfo.c:89-92
    [oidstring |-> <<49, 46, 50, 46, 56, 52, 48, 46, 49, 49, 51, 53, 52, 57, 46, 49, 46, 49, 46, 55>>,
     oid |-> <<42, 134, 72, 134, 247, 13, 1, 1, 7>>, oidlen |-> 9,
     supported |-> 0, pkalgo |-> "PKALGO_RSA", algo_string |-> <<114, 115, 97>>,
     elem_string |-> <<45, 110, 101>>, ctrl_string |-> <<48, 2, 2>>,
     parmelem_string |-> NullStr, parmctrl_string |-> NullStr,
     digest_string |-> NullStr],
    \* 1.2.840.113549.1.1.10 (rsa), keyinfo.c:94-97
    [oidstring |-> <<49, 46, 50, 46, 56, 52, 48, 46, 49, 49, 51, 53, 52, 57, 46, 49, 46, 49, 46, 49, 48>>,
     oid |-> <<42, 134, 72, 134, 247, 13, 1, 1, 10>>, oidlen |-> 9,
     supported |-> 2, pkalgo |-> "PKALGO_RSA", algo_string |-> <<114, 115, 97>>,
     elem_string |-> <<45, 110, 101>>, ctrl_string |-> <<48, 2, 2>>,
     parmelem_string |-> NullStr, parmctrl_string |-> NullStr,
     digest_string |-> NullStr],
    \* 2.5.8.1.1 (ambiguous-rsa), keyinfo.c:99-102
    [oidstring |-> <<50, 46, 53, 46, 56, 46, 49, 46, 49>>,
     oid |-> <<85, 8, 1, 1>>, oidlen |-> 4,
     supported |-> 1, pkalgo |-> "PKALGO_RSA", algo_string |-> <<97, 109, 98, 105, 103, 117, 111, 117, 115, 45, 114, 115, 97>>,
     elem_string |-> <<45, 110, 101>>, ctrl_string |-> <<48, 2, 2>>,
     parmelem_string |-> NullStr, parmctrl_string |-> NullStr,
     digest_string |-> NullStr],
    \* 1.2.840.10040.4.1 (dsa), keyinfo.c:104-107
    [oidstring |-> <<49, 46, 50, 46, 56, 52, 48, 46, 49, 48, 48, 52, 48, 46, 52, 46, 49>>,
     oid |-> <<42, 134, 72, 206, 56, 4, 1>>, oidlen |-> 7,
     supported |-> 1, pkalgo |-> "PKALGO_DSA", algo_string |-> <<100, 115, 97>>,
     elem_string |-> <<121>>, ctrl_string |-> <<2>>,
     parmelem_string |-> <<45, 112, 113, 103>>, parmctrl_string |-> <<48, 2, 2, 2>>,
     digest_string |-> NullStr],
    \* 1.2.840.10045.2.1 (ecc), keyinfo.c:109-112
    [oidstring |-> <<49, 46, 50, 46, 56, 52, 48, 46, 49, 48, 48, 52, 53, 46, 50, 46, 49>>,
     oid |-> <<42, 134, 72, 206, 61, 2, 1>>, oidlen |-> 7,
     supported |-> 1, pkalgo |-> "PKALGO_ECC", algo_string |-> <<101, 99, 99>>,
     elem_string |-> <<113>>, ctrl_string |-> <<128>>,
     parmelem_string |-> NullStr, parmctrl_string |-> NullStr,
     digest_string |-> NullStr],
    \* 1.3.101.110 (ecc), keyinfo.c:114-117
    [oidstring |-> <<49, 46, 51, 46, 49, 48, 49, 46, 49, 49, 48>>,
     oid |-> <<43, 101, 110>>, oidlen |-> 3,
     supported |-> 1, pkalgo |-> "PKALGO_X25519", algo_string |-> <<101, 99, 99>>,
     elem_string |-> <<113>>, ctrl_string |-> <<128>>,
     parmelem_string |-> NullStr, parmctrl_string |-> NullStr,
     digest_string |-> NullStr],
    \* 1.3.101.111 (ecc), keyinfo.c:119-122
    [oidstring |-> <<49, 46, 51, 46, 49, 48, 49, 46, 49, 49, 49>>,
     oid |-> <<43, 101, 111>>, oidlen |-> 3,
     supported |-> 1, pkalgo |-> "PKALGO_X448", algo_string |-> <<101, 99, 99>>,
     elem_string |-> <<113>>, ctrl_string |-> <<128>>,
     parmelem_string |-> NullStr, parmctrl_string |-> NullStr,
     digest_string |-> NullStr],
    \* 1.3.101.112 (ecc), keyinfo.c:124-127
    [oidstring |-> <<49, 46, 51, 46, 49, 48, 49, 46, 49, 49, 50>>,
     oid |-> <<43, 101, 112>>, oidlen |-> 3,
     supported |-> 1, pkalgo |-> "PKALGO_ED25519", algo_string |-> <<101, 99, 99>>,
     elem_string |-> <<113>>, ctrl_string |-> <<128>>,
     parmelem_string |-> NullStr, parmctrl_string |-> NullStr,
     digest_string |-> NullStr],
    \* 1.3.101.113 (ecc), keyinfo.c:129-132
    [oidstring |-> <<49, 46, 51, 46, 49, 48, 49, 46, 49, 49, 51>>,
     oid |-> <<43, 101, 113>>, oidlen |-> 3,
     supported |-> 1, pkalgo |-> "PKALGO_ED448", algo_string |-> <<101, 99, 99>>,
     elem_string |-> <<113>>, ctrl_string |-> <<128>>,
     parmelem_string |-> NullStr, parmctrl_string |-> NullStr,
     digest_string |-> NullStr] >>

\* The table of signature algorithms.
sig_algo_table == <<
    \* 1.2.840.113549.1.1.5 (rsa), keyinfo.c:139-142
    [oidstring |-> <<49, 46, 50, 46, 56, 52, 48, 46, 49, 49, 51, 53, 52, 57, 46, 49, 46, 49, 46, 53>>,
     oid |-> <<42, 134, 72, 134, 247, 13, 1, 1, 5>>, oidlen |-> 9,
     supported |-> 1, pkalgo |-> "PKALGO_RSA", algo_string |-> <<114, 115, 97>>,
     elem_string |-> <<115>>, ctrl_string |-> <<130>>,
     parmelem_string |-> NullStr, parmctrl_string |-> NullStr,
     digest_string |-> <<115, 104, 97, 49>>],
    \* 1.2.840.113549.1.1.4 (rsa), keyinfo.c:143-146
    [oidstring |-> <<49, 46, 50, 46, 56, 52, 48, 46, 49, 49, 51, 53, 52, 57, 46, 49, 46, 49, 46, 52>>,
     oid |-> <<42, 134, 72, 134, 247, 13, 1, 1, 4>>, oidlen |-> 9,
     supported |-> 1, pkalgo |-> "PKALGO_RSA", algo_string |-> <<114, 115, 97>>,
     elem_string |-> <<115>>, ctrl_string |-> <<130>>,
     parmelem_string |-> NullStr, parmctrl_string |-> NullStr,
     digest_string |-> <<109, 100, 53>>],
    \* 1.2.840.113549.1.1.2 (rsa), keyinfo.c:147-150
    [oidstring |-> <<49, 46, 50, 46, 56, 52, 48, 46, 49, 49, 51, 53, 52, 57, 46, 49, 46, 49, 46, 50>>,
     oid |-> <<42, 134, 72, 134, 247, 13, 1, 1, 2>>, oidlen |-> 9,
     supported |-> 0, pkalgo |-> "PKALGO_RSA", algo_string |-> <<114, 115, 97>>,
     elem_string |-> <<115>>, ctrl_string |-> <<130>>,
     parmelem_string |-> NullStr, parmctrl_string |-> NullStr,
     digest_string |-> <<109, 100, 50>>],
    \* 1.2.840.10040.4.3 (dsa), keyinfo.c:151-154
    [oidstring |-> <<49, 46, 50, 46, 56, 52, 48, 46, 49, 48, 48, 52, 48, 46, 52, 46, 51>>,
     oid |-> <<42, 134, 72, 206, 56, 4, 1>>, oidlen |-> 7,
     supported |-> 1, pkalgo |-> "PKALGO_DSA", algo_string |-> <<100, 115, 97>>,
     elem_string |-> <<45, 114, 115>>, ctrl_string |-> <<48, 2, 2>>,
     parmelem_string |-> NullStr, parmctrl_string |-> NullStr,
     digest_string |-> NullStr],
    \* 1.2.840.10040.4.3 (dsa), keyinfo.c:155-158
    [oidstring |-> <<49, 46, 50, 46, 56, 52, 48, 46, 49, 48, 48, 52, 48, 46, 52, 46, 51>>,
     oid |-> <<42, 134, 72, 206, 56, 4, 3>>, oidlen |-> 7,
     supported |-> 1, pkalgo |-> "PKALGO_DSA", algo_string |-> <<100, 115, 97>>,
     elem_string |-> <<45, 114, 115>>, ctrl_string |-> <<48, 2, 2>>,
     parmelem_string |-> NullStr, parmctrl_string |-> NullStr,
     digest_string |-> <<115, 104, 97, 49>>],
    \* 1.3.36.8.5.1.2.2 (dsa), keyinfo.c:159-162
    [oidstring |-> <<49, 46, 51, 46, 51, 54, 46, 56, 46, 53, 46, 49, 46, 50, 46, 50>>,
     oid |-> <<43, 36, 8, 5, 1, 2, 2>>, oidlen |-> 7,
     supported |-> 1, pkalgo |-> "PKALGO_DSA", algo_string |-> <<100, 115, 97>>,
     elem_string |-> <<45, 114, 115>>, ctrl_string |-> <<48, 2, 2>>,
     parmelem_string |-> NullStr, parmctrl_string |-> NullStr,
     digest_string |-> <<114, 109, 100, 49, 54, 48>>],
    \* 2.16.840.1.101.3.4.3.1 (dsa), keyinfo.c:163-166
    [oidstring |-> <<50, 46, 49, 54, 46, 56, 52, 48, 46, 49, 46, 49, 48, 49, 46, 51, 46, 52, 46, 51, 46, 49>>,
     oid |-> <<6, 9, 96, 134, 72, 1, 101, 3, 4, 3, 1>>, oidlen |-> 11,
     supported |-> 1, pkalgo |-> "PKALGO_DSA", algo_string |-> <<100, 115, 97>>,
     elem_string |-> <<45, 114, 115>>, ctrl_string |-> <<48, 2, 2>>,
     parmelem_string |-> NullStr, parmctrl_string |-> NullStr,
     digest_string |-> <<115, 104, 97, 50, 50, 52>>],
    \* 2.16.840.1.101.3.4.3.2 (dsa), keyinfo.c:167-170
    [oidstring |-> <<50, 46, 49, 54, 46, 56, 52, 48, 46, 49, 46, 49, 48, 49, 46, 51, 46, 52, 46, 51, 46, 50>>,
     oid |-> <<6, 9, 96, 134, 72, 1, 101, 3, 4, 3, 1>>, oidlen |-> 11,
     supported |-> 1, pkalgo |-> "PKALGO_DSA", algo_string |-> <<100, 115, 97>>,
     elem_string |-> <<45, 114, 115>>, ctrl_string |-> <<48, 2, 2>>,
     parmelem_string |-> NullStr, parmctrl_string |-> NullStr,
     digest_string |-> <<115, 104, 97, 50, 53, 54>>],
    \* 1.2.840.10045.4.1 (ecdsa), keyinfo.c:172-175
    [oidstring |-> <<49, 46, 50, 46, 56, 52, 48, 46, 49, 48, 48, 52, 53, 46, 52, 46, 49>>,
     oid |-> <<42, 134, 72, 206, 61, 4, 1>>, oidlen |-> 7,
     supported |-> 1, pkalgo |-> "PKALGO_ECC", algo_string |-> <<101, 99, 100, 115, 97>>,
     elem_string |-> <<45, 114, 115>>, ctrl_string |-> <<48, 2, 2>>,
     parmelem_string |-> NullStr, parmctrl_string |-> NullStr,
     digest_string |-> <<115, 104, 97, 49>>],
    \* 1.2.840.10045.4.3 (ecdsa), keyinfo.c:177-180
    [oidstring |-> <<49, 46, 50, 46, 56, 52, 48, 46, 49, 48, 48, 52, 53, 46, 52, 46, 51>>,
     oid |-> <<42, 134, 72, 206, 61, 4, 3>>, oidlen |-> 7,
     supported |-> 1, pkalgo |-> "PKALGO_ECC", algo_string |-> <<101, 99, 100, 115, 97>>,
     elem_string |-> <<45, 114, 115>>, ctrl_string |-> <<48, 2, 2>>,
     parmelem_string |-> NullStr, parmctrl_string |-> NullStr,
     digest_string |-> NullStr],
    \* 1.2.840.10045.4.3.1 (ecdsa), keyinfo.c:184-187
    [oidstring |-> <<49, 46, 50, 46, 56, 52, 48, 46, 49, 48, 48, 52, 53, 46, 52, 46, 51, 46, 49>>,
     oid |-> <<42, 134, 72, 206, 61, 4, 3, 1>>, oidlen |-> 8,
     supported |-> 1, pkalgo |-> "PKALGO_ECC", algo_string |-> <<101, 99, 100, 115, 97>>,
     elem_string |-> <<45, 114, 115>>, ctrl_string |-> <<48, 2, 2>>,
     parmelem_string |-> NullStr, parmctrl_string |-> NullStr,
     digest_string |-> <<115, 104, 97, 50, 50, 52>>],
    \* 1.2.840.10045.4.3.2 (ecdsa), keyinfo.c:189-192
    [oidstring |-> <<49, 46, 50, 46, 56, 52, 48, 46, 49, 48, 48, 52, 53, 46, 52, 46, 51, 46, 50>>,
     oid |-> <<42, 134, 72, 206, 61, 4, 3, 2>>, oidlen |-> 8,
     supported |-> 1, pkalgo |-> "PKALGO_ECC", algo_string |-> <<101, 99, 100, 115, 97>>,
     elem_string |-> <<45, 114, 115>>, ctrl_string |-> <<48, 2, 2>>,
     parmelem_string |-> NullStr, parmctrl_string |-> NullStr,
     digest_string |-> <<115, 104, 97, 50, 53, 54>>],
    \* 1.2.840.10045.4.3.3 (ecdsa), keyinfo.c:194-197
    [oidstring |-> <<49, 46, 50, 46, 56, 52, 48, 46, 49, 48, 48, 52, 53, 46, 52, 46, 51, 46, 51>>,
     oid |-> <<42, 134, 72, 206, 61, 4, 3, 3>>, oidlen |-> 8,
     supported |-> 1, pkalgo |-> "PKALGO_ECC", algo_string |-> <<101, 99, 100, 115, 97>>,
     elem_string |-> <<45, 114, 115>>, ctrl_string |-> <<48, 2, 2>>,
     parmelem_string |-> NullStr, parmctrl_string |-> NullStr,
     digest_string |-> <<115, 104, 97, 51, 56, 52>>],
    \* 1.2.840.10045.4.3.4 (ecdsa), keyinfo.c:199-202
    [oidstring |-> <<49, 46, 50, 46, 56, 52, 48, 46, 49, 48, 48, 52, 53, 46, 52, 46, 51, 46, 52>>,
     oid |-> <<42, 134, 72, 206, 61, 4, 3, 4>>, oidlen |-> 8,
     supported |-> 1, pkalgo |-> "PKALGO_ECC", algo_string |-> <<101, 99, 100, 115, 97>>,
     elem_string |-> <<45, 114, 115>>, ctrl_string |-> <<48, 2, 2>>,
     parmelem_string |-> NullStr, parmctrl_string |-> NullStr,
     digest_string |-> <<115, 104, 97, 53, 49, 50>>],
    \* 1.2.840.113549.1.1.1 (rsa), keyinfo.c:204-207
    [oidstring |-> <<49, 46, 50, 46, 56, 52, 48, 46, 49, 49, 51, 53, 52, 57, 46, 49, 46, 49, 46, 49>>,
     oid |-> <<42, 134, 72, 134, 247, 13, 1, 1, 1>>, oidlen |-> 9,
     supported |-> 1, pkalgo |-> "PKALGO_RSA", algo_string |-> <<114, 115, 97>>,
     elem_string |-> <<115>>, ctrl_string |-> <<130>>,
     parmelem_string |-> NullStr, parmctrl_string |-> NullStr,
     digest_string |-> NullStr],
    \* 1.3.14.3.2.26 (sha-1), keyinfo.c:208-211
    [oidstring |-> <<49, 46, 51, 46, 49, 52, 46, 51, 46, 50, 46, 50, 54>>,
     oid |-> <<43, 14, 3, 2, 26>>, oidlen |-> 5,
     supported |-> 0, pkalgo |-> "PKALGO_RSA", algo_string |-> <<115, 104, 97, 45, 49>>,
     elem_string |-> <<>>, ctrl_string |-> <<>>,
     parmelem_string |-> NullStr, parmctrl_string |-> NullStr,
     digest_string |-> <<115, 104, 97, 49>>],
    \* 1.3.36.3.3.1.2 (rsa), keyinfo.c:213-216
    [oidstring |-> <<49, 46, 51, 46, 51, 54, 46, 51, 46, 51, 46, 49, 46, 50>>,
     oid |-> <<43, 36, 3, 3, 1, 2>>, oidlen |-> 6,
     supported |-> 1, pkalgo |-> "PKALGO_RSA", algo_string |-> <<114, 115, 97>>,
     elem_string |-> <<115>>, ctrl_string |-> <<130>>,
     parmelem_string |-> NullStr, parmctrl_string |-> NullStr,
     digest_string |-> <<114, 109, 100, 49, 54, 48>>],
    \* 1.3.14.3.2.29 (rsa), keyinfo.c:218-221
    [oidstring |-> <<49, 46, 51, 46, 49, 52, 46, 51, 46, 50, 46, 50, 57>>,
     oid |-> <<43, 14, 3, 2, 29>>, oidlen |-> 5,
     supported |-> 1, pkalgo |-> "PKALGO_RSA", algo_string |-> <<114, 115, 97>>,
     elem_string |-> <<115>>, ctrl_string |-> <<130>>,
     parmelem_string |-> NullStr, parmctrl_string |-> NullStr,
     digest_string |-> <<115, 104, 97, 49>>],
    \* 1.2.840.113549.1.1.11 (rsa), keyinfo.c:223-226
    [oidstring |-> <<49, 46, 50, 46, 56, 52, 48, 46, 49, 49, 51, 53, 52, 57, 46, 49, 46, 49, 46, 49, 49>>,
     oid |-> <<42, 134, 72, 134, 247, 13, 1, 1, 11>>, oidlen |-> 9,
     supported |-> 1, pkalgo |-> "PKALGO_RSA", algo_string |-> <<114, 115, 97>>,
     elem_string |-> <<115>>, ctrl_string |-> <<130>>,
     parmelem_string |-> NullStr, parmctrl_string |-> NullStr,
     digest_string |-> <<115, 104, 97, 50, 53, 54>>],
    \* 1.2.840.113549.1.1.12 (rsa), keyinfo.c:228-231
    [oidstring |-> <<49, 46, 50, 46, 56, 52, 48, 46, 49, 49, 51, 53, 52, 57, 46, 49, 46, 49, 46, 49, 50>>,
     oid |-> <<42, 134, 72, 134, 247, 13, 1, 1, 12>>, oidlen |-> 9,
     supported |-> 1, pkalgo |-> "PKALGO_RSA", algo_string |-> <<114, 115, 97>>,
     elem_string |-> <<115>>, ctrl_string |-> <<130>>,
     parmelem_string |-> NullStr, parmctrl_string |-> NullStr,
     digest_string |-> <<115, 104, 97, 51, 56, 52>>],
    \* 1.2.840.113549.1.1.13 (rsa), keyinfo.c:233-236
    [oidstring |-> <<49, 46, 50, 46, 56, 52, 48, 46, 49, 49, 51, 53, 52, 57, 46, 49, 46, 49, 46, 49, 51>>,
     oid |-> <<42, 134, 72, 134, 247, 13, 1, 1, 13>>, oidlen |-> 9,
     supported |-> 1, pkalgo |-> "PKALGO_RSA", algo_string |-> <<114, 115, 97>>,
     elem_string |-> <<115>>, ctrl_string |-> <<130>>,
     parmelem_string |-> NullStr, parmctrl_string |-> NullStr,
     digest_string |-> <<115, 104, 97, 53, 49, 50>>],
    \* 1.2.840.113549.1.1.10 (rsa), keyinfo.c:238-241
    [oidstring |-> <<49, 46, 50, 46, 56, 52, 48, 46, 49, 49, 51, 53, 52, 57, 46, 49, 46, 49, 46, 49, 48>>,
     oid |-> <<42, 134, 72, 134, 247, 13, 1, 1, 10>>, oidlen |-> 9,
     supported |-> 2, pkalgo |-> "PKALGO_RSA", algo_string |-> <<114, 115, 97>>,
     elem_string |-> <<115>>, ctrl_string |-> <<130>>,
     parmelem_string |-> NullStr, parmctrl_string |-> NullStr,
     digest_string |-> NullStr],
    \* 1.3.36.3.4.3.2.2 (rsa), keyinfo.c:243-248
    [oidstring |-> <<49, 46, 51, 46, 51, 54, 46, 51, 46, 52, 46, 51, 46, 50, 46, 50>>,
     oid |-> <<43, 36, 3, 4, 3, 2, 2>>, oidlen |-> 7,
     supported |-> 0, pkalgo |-> "PKALGO_RSA", algo_string |-> <<114, 115, 97>>,
     elem_string |-> <<115>>, ctrl_string |-> <<130>>,
     parmelem_string |-> NullStr, parmctrl_string |-> NullStr,
     digest_string |-> <<114, 109, 100, 49, 54, 48>>],
    \* 1.3.101.112 (eddsa), keyinfo.c:251-254
    [oidstring |-> <<49, 46, 51, 46, 49, 48, 49, 46, 49, 49, 50>>,
     oid |-> <<43, 101, 112>>, oidlen |-> 3,
     supported |-> 1, pkalgo |-> "PKALGO_ED25519", algo_string |-> <<101, 100, 100, 115, 97>>,
     elem_string |-> <<45, 114, 115>>, ctrl_string |-> <<128>>,
     parmelem_string |-> NullStr, parmctrl_string |-> NullStr,
     digest_string |-> NullStr],
    \* 1.3.101.113 (eddsa), keyinfo.c:255-258
    [oidstring |-> <<49, 46, 51, 46, 49, 48, 49, 46, 49, 49, 51>>,
     oid |-> <<43, 101, 113>>, oidlen |-> 3,
     supported |-> 1, pkalgo |-> "PKALGO_ED448", algo_string |-> <<101, 100, 100, 115, 97>>,
     elem_string |-> <<45, 114, 115>>, ctrl_string |-> <<128>>,
     parmelem_string |-> NullStr, parmctrl_string |-> NullStr,
     digest_string |-> NullStr] >>

\* The names of the curves.
curve_names == <<
    \* 1.3.6.1.4.1.3029.1.5.1  Curve25519
    [oid |-> <<49, 46, 51, 46, 54, 46, 49, 46, 52, 46, 49, 46, 51, 48, 50, 57, 46, 49, 46, 53, 46, 49>>, name |-> <<67, 117, 114, 118, 101, 50, 53, 53, 49, 57>>],
    \* 1.3.6.1.4.1.11591.15.1  Ed25519
    [oid |-> <<49, 46, 51, 46, 54, 46, 49, 46, 52, 46, 49, 46, 49, 49, 53, 57, 49, 46, 49, 53, 46, 49>>, name |-> <<69, 100, 50, 53, 53, 49, 57>>],
    \* 1.2.840.10045.3.1.1  NIST P-192
    [oid |-> <<49, 46, 50, 46, 56, 52, 48, 46, 49, 48, 48, 52, 53, 46, 51, 46, 49, 46, 49>>, name |-> <<78, 73, 83, 84, 32, 80, 45, 49, 57, 50>>],
    \* 1.2.840.10045.3.1.1  nistp192
    [oid |-> <<49, 46, 50, 46, 56, 52, 48, 46, 49, 48, 48, 52, 53, 46, 51, 46, 49, 46, 49>>, name |-> <<110, 105, 115, 116, 112, 49, 57, 50>>],
    \* 1.2.840.10045.3.1.1  prime192v1
    [oid |-> <<49, 46, 50, 46, 56, 52, 48, 46, 49, 48, 48, 52, 53, 46, 51, 46, 49, 46, 49>>, name |-> <<112, 114, 105, 109, 101, 49, 57, 50, 118, 49>>],
    \* 1.2.840.10045.3.1.1  secp192r1
    [oid |-> <<49, 46, 50, 46, 56, 52, 48, 46, 49, 48, 48, 52, 53, 46, 51, 46, 49, 46, 49>>, name |-> <<115, 101, 99, 112, 49, 57, 50, 114, 49>>],
    \* 1.3.132.0.33  NIST P-224
    [oid |-> <<49, 46, 51, 46, 49, 51, 50, 46, 48, 46, 51, 51>>, name |-> <<78, 73, 83, 84, 32, 80, 45, 50, 50, 52>>],
    \* 1.3.132.0.33  nistp224
    [oid |-> <<49, 46, 51, 46, 49, 51, 50, 46, 48, 46, 51, 51>>, name |-> <<110, 105, 115, 116, 112, 50, 50, 52>>],
    \* 1.3.132.0.33  secp224r1
    [oid |-> <<49, 46, 51, 46, 49, 51, 50, 46, 48, 46, 51, 51>>, name |-> <<115, 101, 99, 112, 50, 50, 52, 114, 49>>],
    \* 1.2.840.10045.3.1.7  NIST P-256
    [oid |-> <<49, 46, 50, 46, 56, 52, 48, 46, 49, 48, 48, 52, 53, 46, 51, 46, 49, 46, 55>>, name |-> <<78, 73, 83, 84, 32, 80, 45, 50, 53, 54>>],
    \* 1.2.840.10045.3.1.7  nistp256
    [oid |-> <<49, 46, 50, 46, 56, 52, 48, 46, 49, 48, 48, 52, 53, 46, 51, 46, 49, 46, 55>>, name |-> <<110, 105, 115, 116, 112, 50, 53, 54>>],
    \* 1.2.840.10045.3.1.7  prime256v1
    [oid |-> <<49, 46, 50, 46, 56, 52, 48, 46, 49, 48, 48, 52, 53, 46, 51, 46, 49, 46, 55>>, name |-> <<112, 114, 105, 109, 101, 50, 53, 54, 118, 49>>],
    \* 1.2.840.10045.3.1.7  secp256r1
    [oid |-> <<49, 46, 50, 46, 56, 52, 48, 46, 49, 48, 48, 52, 53, 46, 51, 46, 49, 46, 55>>, name |-> <<115, 101, 99, 112, 50, 53, 54, 114, 49>>],
    \* 1.3.132.0.34  NIST P-384
    [oid |-> <<49, 46, 51, 46, 49, 51, 50, 46, 48, 46, 51, 52>>, name |-> <<78, 73, 83, 84, 32, 80, 45, 51, 56, 52>>],
    \* 1.3.132.0.34  nistp384
    [oid |-> <<49, 46, 51, 46, 49, 51, 50, 46, 48, 46, 51, 52>>, name |-> <<110, 105, 115, 116, 112, 51, 56, 52>>],
    \* 1.3.132.0.34  secp384r1
    [oid |-> <<49, 46, 51, 46, 49, 51, 50, 46, 48, 46, 51, 52>>, name |-> <<115, 101, 99, 112, 51, 56, 52, 114, 49>>],
    \* 1.3.132.0.35  NIST P-521
    [oid |-> <<49, 46, 51, 46, 49, 51, 50, 46, 48, 46, 51, 53>>, name |-> <<78, 73, 83, 84, 32, 80, 45, 53, 50, 49>>],
    \* 1.3.132.0.35  nistp521
    [oid |-> <<49, 46, 51, 46, 49, 51, 50, 46, 48, 46, 51, 53>>, name |-> <<110, 105, 115, 116, 112, 53, 50, 49>>],
    \* 1.3.132.0.35  secp521r1
    [oid |-> <<49, 46, 51, 46, 49, 51, 50, 46, 48, 46, 51, 53>>, name |-> <<115, 101, 99, 112, 53, 50, 49, 114, 49>>],
    \* 1.3.36.3.3.2.8.1.1.1  brainpoolP160r1
    [oid |-> <<49, 46, 51, 46, 51, 54, 46, 51, 46, 51, 46, 50, 46, 56, 46, 49, 46, 49, 46, 49>>, name |-> <<98, 114, 97, 105, 110, 112, 111, 111, 108, 80, 49, 54, 48, 114, 49>>],
    \* 1.3.36.3.3.2.8.1.1.3  brainpoolP192r1
    [oid |-> <<49, 46, 51, 46, 51, 54, 46, 51, 46, 51, 46, 50, 46, 56, 46, 49, 46, 49, 46, 51>>, name |-> <<98, 114, 97, 105, 110, 112, 111, 111, 108, 80, 49, 57, 50, 114, 49>>],
    \* 1.3.36.3.3.2.8.1.1.5  brainpoolP224r1
    [oid |-> <<49, 46, 51, 46, 51, 54, 46, 51, 46, 51, 46, 50, 46, 56, 46, 49, 46, 49, 46, 53>>, name |-> <<98, 114, 97, 105, 110, 112, 111, 111, 108, 80, 50, 50, 52, 114, 49>>],
    \* 1.3.36.3.3.2.8.1.1.7  brainpoolP256r1
    [oid |-> <<49, 46, 51, 46, 51, 54, 46, 51, 46, 51, 46, 50, 46, 56, 46, 49, 46, 49, 46, 55>>, name |-> <<98, 114, 97, 105, 110, 112, 111, 111, 108, 80, 50, 53, 54, 114, 49>>],
    \* 1.3.36.3.3.2.8.1.1.9  brainpoolP320r1
    [oid |-> <<49, 46, 51, 46, 51, 54, 46, 51, 46, 51, 46, 50, 46, 56, 46, 49, 46, 49, 46, 57>>, name |-> <<98, 114, 97, 105, 110, 112, 111, 111, 108, 80, 51, 50, 48, 114, 49>>],
    \* 1.3.36.3.3.2.8.1.1.11  brainpoolP384r1
    [oid |-> <<49, 46, 51, 46, 51, 54, 46, 51, 46, 51, 46, 50, 46, 56, 46, 49, 46, 49, 46, 49, 49>>, name |-> <<98, 114, 97, 105, 110, 112, 111, 111, 108, 80, 51, 56, 52, 114, 49>>],
    \* 1.3.36.3.3.2.8.1.1.13  brainpoolP512r1
    [oid |-> <<49, 46, 51, 46, 51, 54, 46, 51, 46, 51, 46, 50, 46, 56, 46, 49, 46, 49, 46, 49, 51>>, name |-> <<98, 114, 97, 105, 110, 112, 111, 111, 108, 80, 53, 49, 50, 114, 49>>],
    \* 1.2.643.2.2.35.1  GOST2001-CryptoPro-A
    [oid |-> <<49, 46, 50, 46, 54, 52, 51, 46, 50, 46, 50, 46, 51, 53, 46, 49>>, name |-> <<71, 79, 83, 84, 50, 48, 48, 49, 45, 67, 114, 121, 112, 116, 111, 80, 114, 111, 45, 65>>],
    \* 1.2.643.2.2.35.2  GOST2001-CryptoPro-B
    [oid |-> <<49, 46, 50, 46, 54, 52, 51, 46, 50, 46, 50, 46, 51, 53, 46, 50>>, name |-> <<71, 79, 83, 84, 50, 48, 48, 49, 45, 67, 114, 121, 112, 116, 111, 80, 114, 111, 45, 66>>],
    \* 1.2.643.2.2.35.3  GOST2001-CryptoPro-C
    [oid |-> <<49, 46, 50, 46, 54, 52, 51, 46, 50, 46, 50, 46, 51, 53, 46, 51>>, name |-> <<71, 79, 83, 84, 50, 48, 48, 49, 45, 67, 114, 121, 112, 116, 111, 80, 114, 111, 45, 67>>],
    \* 1.2.643.7.1.2.1.2.1  GOST2012-tc26-A
    [oid |-> <<49, 46, 50, 46, 54, 52, 51, 46, 55, 46, 49, 46, 50, 46, 49, 46, 50, 46, 49>>, name |-> <<71, 79, 83, 84, 50, 48, 49, 50, 45, 116, 99, 50, 54, 45, 65>>],
    \* 1.2.643.7.1.2.1.2.2  GOST2012-tc26-B
    [oid |-> <<49, 46, 50, 46, 54, 52, 51, 46, 55, 46, 49, 46, 50, 46, 49, 46, 50, 46, 50>>, name |-> <<71, 79, 83, 84, 50, 48, 49, 50, 45, 116, 99, 50, 54, 45, 66>>],
    \* 1.3.132.0.10  secp256k1
    [oid |-> <<49, 46, 51, 46, 49, 51, 50, 46, 48, 46, 49, 48>>, name |-> <<115, 101, 99, 112, 50, 53, 54, 107, 49>>] >>

\* pk_algo_table[i] with the index of the C source.
PkEntry(i) == pk_algo_table[i + 1]

Str_public_key == <<112, 117, 98, 108, 105, 99, 45, 107, 101, 121>>      \* "public-key"
Str_open_public_key == <<40, 49, 48, 58, 112, 117, 98, 108, 105, 99, 45, 107, 101, 121, 40>>
                                           \* "(10:public-key("
Str_curve == <<99, 117, 114, 118, 101>>                \* "curve"
Str_Ed25519 == <<69, 100, 50, 53, 53, 49, 57>>            \* "Ed25519"
Str_Ed448 == <<69, 100, 52, 52, 56>>                \* "Ed448"
Str_oid == <<111, 105, 100>>                    \* "oid"
Str_OID == <<79, 73, 68>>                    \* "OID"

\* put_stringbuf_sexp and put_stringbuf_mem_sexp: the length in decimal,
\* a colon and the bytes.
put_stringbuf_sexp(text) == ToDec(Len(text)) \o <<58>> \o text

\* len == table[i].oidlen && !memcmp (der+off, table[i].oid, len)
SameOid(e, bytes) ==
  /\ Len(bytes) = e.oidlen
  /\ \A i \in 1..Len(bytes) : bytes[i] = At(e.oid, i)

\* The index at which a loop over a table breaks: the first index of
\* hits that holds TRUE, 0 for none.
FirstEntry(hits) ==
  IF \A i \in 1..Len(hits) : ~hits[i] THEN 0
  ELSE CHOOSE i \in 1..Len(hits) : hits[i] /\ \A j \in 1..(i - 1) : ~hits[j]

\* The lookup of the OID bytes in pk_algo_table.
PkLookup(bytes) ==
  FirstEntry([i \in 1..Len(pk_algo_table) |-> SameOid(pk_algo_table[i], bytes)])

SexpFail(e) == [err |-> e, sexp |-> <<>>]

WalkFail(e) == [err |-> e, p |-> 0, out |-> <<>>]

RECURSIVE ElemWalk(_, _, _, _, _, _)
RECURSIVE ElemTake(_, _, _, _, _, _, _, _)

\* The body of the element loop behind TLV_LENGTH, which gave t.
ElemTlv(elem, ctrl, i, buf, out, is_int, t) ==
  IF t.err # OK THEN WalkFail(t.err)
  ELSE ElemTake(elem, ctrl, i, buf, t.p, out, is_int, t.len)

\* "Take this integer": element i with its len bytes at offset p.
ElemTake(elem, ctrl, i, buf, p, out, is_int, len) ==
  IF is_int /\ elem[i] # 45
    THEN ElemWalk(elem, ctrl, i + 1, buf, p + len,
                  out \o <<40>> \o put_stringbuf_sexp(<<elem[i]>>)
                      \o put_stringbuf_sexp(Slice(buf, p, len)) \o <<41>>)
  ELSE ElemWalk(elem, ctrl, i + 1, buf, p, out)

\* The loop over the element descriptor elem and the control descriptor
\* ctrl from element i on, with der at offset p of buf, whose end is the
\* end of the bytes left; out is the string buffer.
ElemWalk(elem, ctrl, i, buf, p, out) ==
  IF i > Len(elem) THEN [err |-> OK, p |-> p, out |-> out]
  ELSE IF At(ctrl, i) >= 128 /\ i = Len(elem)
    THEN ElemTake(elem, ctrl, i, buf, p, out, TRUE, Len(buf) - p)
  ELSE IF p >= Len(buf) THEN WalkFail("GPG_ERR_INV_KEYINFO")
  ELSE IF buf[p + 1] # At(ctrl, i) THEN WalkFail("GPG_ERR_UNEXPECTED_TAG")
  ELSE ElemTlv(elem, ctrl, i, buf, out, buf[p + 1] = 2, TLV_LENGTH(buf, p + 1))

\* The end of _ksba_keyinfo_to_sexp, behind the walk w over the elements.
to_sexp_done(oom, w) ==
  IF w.err # OK THEN SexpFail(w.err)
  ELSE IF oom = "stringbuf" THEN SexpFail("GPG_ERR_ENOMEM")
  ELSE [err |-> OK, sexp |-> w.out \o <<41, 41>>]

\* _ksba_keyinfo_to_sexp behind the walk w over the parameters; the key
\* starts at offset p of b.
to_sexp_elems(b, p, oom, e, w) ==
  IF w.err # OK THEN SexpFail(w.err)
  ELSE to_sexp_done(oom, ElemWalk(e.elem_string, e.ctrl_string, 1, b, p, w.out))

\* _ksba_keyinfo_to_sexp from "If parameters are given" on.
to_sexp_parms(b, p, oom, e, out, parmder) ==
  IF parmder # <<>> /\ e.parmelem_string # NullStr /\ e.parmctrl_string # NullStr
    THEN to_sexp_elems(b, p, oom, e,
           ElemWalk(e.parmelem_string, e.parmctrl_string, 1, parmder, 0, out))
  ELSE to_sexp_elems(b, p, oom, e, [err |-> OK, p |-> 0, out |-> out])

\* The string buffer after the name of the algorithm and the curve.
SexpHead(e, parm_oid) ==
  Str_open_public_key \o put_stringbuf_sexp(e.algo_string)
    \o (IF e.pkalgo = "PKALGO_ECC" /\ ~parm_oid.null
          THEN <<40>> \o put_stringbuf_sexp(Str_curve)
                 \o put_stringbuf_sexp(parm_oid.str) \o <<41>>
        ELSE <<>>)

\* _ksba_keyinfo_to_sexp from "der += nread" on.
to_sexp_value(b, oom, a, e, parm_oid, parmder) ==
  IF a.bitstr = 1 /\ a.nread >= Len(b) THEN SexpFail("GPG_ERR_INV_KEYINFO")
  ELSE to_sexp_parms(b, IF a.bitstr = 1 THEN a.nread + 1 ELSE a.nread, oom, e,
                     SexpHead(e, parm_oid), parmder)

\* _ksba_keyinfo_to_sexp behind the lookup in the table, which gave the
\* index algoidx.  oom = "parm_oid" lets ksba_oid_to_str fail.
to_sexp_entry(b, oom, a, algoidx) ==
  IF algoidx = 0 THEN SexpFail("GPG_ERR_UNKNOWN_ALGORITHM")
  ELSE IF pk_algo_table[algoidx].supported = 0
    THEN SexpFail("GPG_ERR_UNSUPPORTED_ALGORITHM")
  ELSE IF a.parm_pos # 0 /\ a.parm_len # 0 /\ a.parm_type = TYPE_OBJECT_ID
    THEN to_sexp_value(b, oom, a, pk_algo_table[algoidx],
           IF oom = "parm_oid" THEN NoOid
           ELSE [null |-> FALSE, str |-> ksba_oid_to_str(Slice(b, a.parm_pos, a.parm_len))],
           <<>>)
  ELSE IF a.parm_pos # 0 /\ a.parm_len # 0
    THEN to_sexp_value(b, oom, a, pk_algo_table[algoidx], NoOid,
                       Slice(b, a.parm_pos, a.parm_len))
  ELSE to_sexp_value(b, oom, a, pk_algo_table[algoidx], NoOid, <<>>)

\* _ksba_keyinfo_to_sexp behind get_algorithm, which gave a.
to_sexp_algo(b, oom, a) ==
  IF a.err # OK THEN SexpFail(a.err)
  ELSE to_sexp_entry(b, oom, a, PkLookup(Slice(b, a.pos, a.len)))

\* _ksba_keyinfo_to_sexp behind the outer TLV_LENGTH, which gave t.
to_sexp_outer(der, oom, t) ==
  IF t.err # OK THEN SexpFail(t.err)
  ELSE to_sexp_algo(Slice(der, t.p, Len(der) - t.p), oom,
                    get_algorithm(1, Slice(der, t.p, Len(der) - t.p), TRUE))

\* _ksba_keyinfo_to_sexp: the error and the S-expression.
keyinfo_to_sexp(der, oom) ==
  IF Len(der) = 0 THEN SexpFail("GPG_ERR_INV_KEYINFO")
  ELSE IF der[1] # 48 THEN SexpFail("GPG_ERR_UNEXPECTED_TAG")
  ELSE to_sexp_outer(der, oom, TLV_LENGTH(der, 1))

RECURSIVE BigEndian(_)
\* The octets of n, most significant first, without leading zero octets.
BigEndian(n) == IF n < 256 THEN <<n>> ELSE BigEndian(n \div 256) \o <<n % 256>>

\* _ksba_ber_write_tl: the header of a TLV in DER; a NULL has no length
\* but 0.
_ksba_ber_write_tl(tag, class, constructed, length) ==
  <<class * 64 + (IF constructed THEN 32 ELSE 0) + tag>>
    \o (IF tag = TYPE_NULL /\ class = CLASS_UNIVERSAL THEN <<0>>
        ELSE IF length < 128 THEN <<length>>
        ELSE <<128 + Len(BigEndian(length))>> \o BigEndian(length))

\* _ksba_ber_count_tl: the number of bytes _ksba_ber_write_tl writes.
_ksba_ber_count_tl(tag, class, constructed, length) ==
  Len(_ksba_ber_write_tl(tag, class, constructed, length))

RECURSIVE Digits(_, _, _)
\* The digits of strtoul from index i on: the number and the index of
\* the first byte that is no digit (endp).
Digits(s, i, n) ==
  IF digitp(At(s, i)) THEN Digits(s, i + 1, Min(n * 10 + (At(s, i) - 48), ULongHuge))
  ELSE [n |-> n, i |-> i]

\* strtoul (s, &endp, 10) at index i of a string that has neither blanks
\* nor a sign there.
strtoul(s, i) == Digits(s, i, 0)

\* The n bytes behind offset off of the C string s.
Peek(s, off, n) == [k \in 1..n |-> At(s, off + k)]

\* The optional "oid." prefix taken off.
StripOidPrefix(buf) ==
  IF /\ Len(buf) > 4
     /\ buf[4] = 46
     /\ digitp(buf[5])
     /\ SubSeq(buf, 1, 3) \in {Str_oid, Str_OID}
    THEN SubSeq(buf, 5, Len(buf))
  ELSE buf

\* What oid_from_buffer hands out for the entry at index i of table, NULL
\* for i = 0.
OidOfEntry(table, i) ==
  IF i = 0 THEN [null |-> TRUE, oid |-> <<>>, oidlen |-> 0, pkalgo |-> "none"]
  ELSE [null |-> FALSE, oid |-> table[i].oid, oidlen |-> table[i].oidlen,
        pkalgo |-> table[i].pkalgo]

\* The scan of a table for the name or the dotted OID buf.
NameLookup(table, buf) ==
  FirstEntry([i \in 1..Len(table) |->
                /\ table[i].supported # 0
                /\ (buf = table[i].oidstring \/ buf = table[i].algo_string)])

\* oid_from_buffer behind the prefix: the table of signature algorithms
\* first if with_sig, then the table of public-key algorithms.
oid_from_stripped(buf, with_sig) ==
  IF with_sig /\ NameLookup(sig_algo_table, buf) # 0
    THEN OidOfEntry(sig_algo_table, NameLookup(sig_algo_table, buf))
  ELSE OidOfEntry(pk_algo_table, NameLookup(pk_algo_table, buf))

oid_from_buffer(buf, with_sig) == oid_from_stripped(StripOidPrefix(buf), with_sig)

NoCurve == [null |-> TRUE, oid |-> <<>>]

\* get_ecc_curve_oid behind _ksba_oid_from_buf, which gave r.
CurveOid(r) == IF r.err # OK THEN NoCurve ELSE [null |-> FALSE, oid |-> r.oid]

\* The index of the curve named buf in curve_names, 0 for none.
CurveLookup(buf) ==
  FirstEntry([i \in 1..Len(curve_names) |-> curve_names[i].name = buf])

\* get_ecc_curve_oid behind the prefix.
curve_oid_stripped(buf) ==
  IF Len(buf) # 0 /\ ~digitp(buf[1])
    THEN IF CurveLookup(buf) = 0 THEN NoCurve
         ELSE CurveOid(_ksba_oid_from_buf(curve_names[CurveLookup(buf)].oid))
  ELSE CurveOid(_ksba_oid_from_buf(buf))

\* get_ecc_curve_oid: the OID of the curve buf names; oom = "curve_oid"
\* lets the allocation in _ksba_oid_from_buf fail.
get_ecc_curve_oid(buf, oom) ==
  IF oom = "curve_oid" THEN NoCurve ELSE curve_oid_stripped(StripOidPrefix(buf))

DimParm == 10

KeyFail(e) == [err |-> e, der |-> <<>>]
CollectFail(e) == [err |-> e, i |-> 0, parms |-> <<>>]

\* The error for a byte that should have opened a list.
NoListError(c) == IF digitp(c) THEN "GPG_ERR_UNKNOWN_SEXP" ELSE "GPG_ERR_INV_SEXP"

RECURSIVE CollectParms(_, _, _), CollectName(_, _, _), CollectValue(_, _, _, _)
\* The loop that collects the (name value) lists up to the closing
\* parenthesis of the algorithm's list, s[i] being the next byte.
CollectParms(s, i, parms) ==
  IF At(s, i) = 41 THEN [err |-> OK, i |-> i, parms |-> parms]
  ELSE IF Len(parms) >= DimParm THEN CollectFail("GPG_ERR_GENERAL")
  ELSE IF At(s, i) # 40 THEN CollectFail(NoListError(At(s, i)))
  ELSE CollectName(s, parms, strtoul(s, i + 1))

\* The loop's body behind the length r of the name.
CollectName(s, parms, r) ==
  IF r.n = 0 \/ At(s, r.i) # 58 THEN CollectFail("GPG_ERR_INV_SEXP")
  ELSE IF ~digitp(At(s, r.i + 1 + r.n)) THEN CollectFail("GPG_ERR_UNKNOWN_SEXP")
  ELSE CollectValue(s, parms, Peek(s, r.i, r.n), strtoul(s, r.i + 1 + r.n))

\* The loop's body behind the length r of the value.
CollectValue(s, parms, name, r) ==
  IF r.n = 0 \/ At(s, r.i) # 58 THEN CollectFail("GPG_ERR_INV_SEXP")
  ELSE IF At(s, r.i + 1 + r.n) # 41 THEN CollectFail("GPG_ERR_UNKNOWN_SEXP")
  ELSE CollectParms(s, r.i + 2 + r.n,
                    Append(parms, [name |-> name, value |-> Peek(s, r.i, r.n)]))

RECURSIVE sskip(_, _, _)
\* sskip: skips to the end of the list that is open d levels deep.
sskip(s, i, d) ==
  IF d = 0 THEN [err |-> OK, i |-> i]
  ELSE IF At(s, i) = 40 THEN sskip(s, i + 1, d + 1)
  ELSE IF At(s, i) = 41 THEN sskip(s, i + 1, d - 1)
  ELSE IF strtoul(s, i).n = 0 \/ At(s, strtoul(s, i).i) # 58
    THEN [err |-> "GPG_ERR_INV_SEXP", i |-> i]
  ELSE sskip(s, strtoul(s, i).i + 1 + strtoul(s, i).n, d)

\* The index of the first "curve" parameter that names Ed25519 or Ed448,
\* 0 if there is none.
FirstEdCurve(parms) ==
  FirstEntry([i \in 1..Len(parms) |->
                /\ parms[i].name = Str_curve
                /\ parms[i].value \in {Str_Ed25519, Str_Ed448}])

KeyDesc(pkalgo, parmdesc, algoparmdesc, oid, oidlen) ==
  [err |-> OK, pkalgo |-> pkalgo, parmdesc |-> parmdesc,
   algoparmdesc |-> algoparmdesc, oid |-> oid, oidlen |-> oidlen]

\* The case PKALGO_ECC of the switch, k being the index FirstEdCurve
\* found.
EccDesc(o, parms, k) ==
  IF k = 0 THEN KeyDesc("PKALGO_ECC", <<67, 113>>, NullStr, o.oid, o.oidlen)
  ELSE IF parms[k].value = Str_Ed25519
    THEN KeyDesc("PKALGO_ED25519", <<113>>, NullStr, PkEntry(7).oid, PkEntry(7).oidlen)
  ELSE KeyDesc("PKALGO_ED448", <<113>>, NullStr, PkEntry(8).oid, PkEntry(8).oidlen)

KeyParmDesc_swapped(o, parms) ==
  IF o.pkalgo = "PKALGO_RSA"
    THEN KeyDesc("PKALGO_RSA", <<101, 110>>, NullStr, o.oid, o.oidlen)
  ELSE IF o.pkalgo = "PKALGO_DSA"
    THEN KeyDesc("PKALGO_DSA", <<121>>, <<112, 113, 103>>, o.oid, o.oidlen)
  ELSE IF o.pkalgo = "PKALGO_ECC" THEN EccDesc(o, parms, FirstEdCurve(parms))
  ELSE [err |-> "GPG_ERR_UNKNOWN_ALGORITHM"]

\* The switch on pkalgo: the parameters in the order they are written
\* ("ne", "y" with "pqg", "Cq" or "q") and the OID to write.
KeyParmDesc(o, parms) ==
  IF o.pkalgo = "PKALGO_RSA"
    THEN KeyDesc("PKALGO_RSA", <<110, 101>>, NullStr, o.oid, o.oidlen)
  ELSE IF o.pkalgo = "PKALGO_DSA"
    THEN KeyDesc("PKALGO_DSA", <<121>>, <<112, 113, 103>>, o.oid, o.oidlen)
  ELSE IF o.pkalgo = "PKALGO_ECC" THEN EccDesc(o, parms, FirstEdCurve(parms))
  ELSE [err |-> "GPG_ERR_UNKNOWN_ALGORITHM"]

\* The index of the first parameter the descriptor character ch selects,
\* 0 if there is none; with magic, 'C' selects "curve".
ParmIndex(ch, parms, magic) ==
  FirstEntry([i \in 1..Len(parms) |->
                IF magic /\ ch = 67 THEN parms[i].name = Str_curve
                ELSE parms[i].name = <<ch>>])

\* idxtbl: for each character of desc that selects a parameter, that
\* parameter's index.
IdxTbl(desc, parms, magic) ==
  LET found(x) == x # 0
  IN SelectSeq([k \in 1..Len(desc) |-> ParmIndex(desc[k], parms, magic)], found)

RECURSIVE IntTlvs(_, _, _)
\* The INTEGERs of the parameters idxtbl[k..] as they are written.
IntTlvs(parms, idxtbl, k) ==
  IF k > Len(idxtbl) THEN <<>>
  ELSE _ksba_ber_write_tl(TYPE_INTEGER, CLASS_UNIVERSAL, FALSE, Len(parms[idxtbl[k]].value))
         \o parms[idxtbl[k]].value \o IntTlvs(parms, idxtbl, k + 1)

\* The BIT STRING of a raw value: header, no unused bits, the value.
RawBitString(value) ==
  _ksba_ber_write_tl(TYPE_BIT_STRING, CLASS_UNIVERSAL, FALSE, Len(value) + 1)
    \o <<0>> \o value

\* The BIT STRING of RSA and DSA behind the INTEGERs ints, which get a
\* SEQUENCE around them if they are more than one.
IntBitString(idxtbllen, ints) ==
  _ksba_ber_write_tl(TYPE_BIT_STRING, CLASS_UNIVERSAL, FALSE,
                     1 + (IF idxtbllen > 1
                            THEN _ksba_ber_count_tl(TYPE_SEQUENCE, CLASS_UNIVERSAL, TRUE, Len(ints))
                          ELSE 0) + Len(ints))
    \o <<0>>
    \o (IF idxtbllen > 1
          THEN _ksba_ber_write_tl(TYPE_SEQUENCE, CLASS_UNIVERSAL, TRUE, Len(ints))
        ELSE <<>>)
    \o ints

\* Step 1: the key material in its BIT STRING.
BitString(parms, d, idxtbl) ==
  IF d.pkalgo = "PKALGO_ECC" THEN RawBitString(parms[idxtbl[2]].value)
  ELSE IF d.pkalgo \in {"PKALGO_ED25519", "PKALGO_ED448"}
    THEN RawBitString(parms[idxtbl[1]].value)
  ELSE IntBitString(Len(idxtbl), IntTlvs(parms, idxtbl, 1))

\* The parameter of the AlgorithmIdentifier.
AlgIdParm(d, curve, algoparmseq) ==
  IF Len(algoparmseq) # 0 THEN algoparmseq
  ELSE IF d.pkalgo = "PKALGO_ECC"
    THEN _ksba_ber_write_tl(TYPE_OBJECT_ID, CLASS_UNIVERSAL, FALSE, Len(curve.oid))
           \o curve.oid
  ELSE IF d.pkalgo = "PKALGO_RSA"
    THEN _ksba_ber_write_tl(TYPE_NULL, CLASS_UNIVERSAL, FALSE, 0)
  ELSE <<>>

\* The value of the AlgorithmIdentifier: OID and parameter.
AlgIdBody(d, curve, algoparmseq) ==
  _ksba_ber_write_tl(TYPE_OBJECT_ID, CLASS_UNIVERSAL, FALSE, d.oidlen)
    \o Peek(d.oid, 0, d.oidlen) \o AlgIdParm(d, curve, algoparmseq)

\* Step 2: the outer SEQUENCE around AlgorithmIdentifier and BIT STRING.
from_sexp_outer(body, bitstr) ==
  [err |-> OK,
   der |-> _ksba_ber_write_tl(TYPE_SEQUENCE, CLASS_UNIVERSAL, TRUE,
                              Len(body)
                              + _ksba_ber_count_tl(TYPE_SEQUENCE, CLASS_UNIVERSAL, TRUE, Len(body))
                              + Len(bitstr))
           \o _ksba_ber_write_tl(TYPE_SEQUENCE, CLASS_UNIVERSAL, TRUE, Len(body))
           \o body \o bitstr]

\* The SEQUENCE of the parameters "pqg", idx being their idxtbl.
from_sexp_algoparm(parms, d, curve, bitstr, idx) ==
  IF Len(idx) # Len(d.algoparmdesc) THEN KeyFail("GPG_ERR_UNKNOWN_SEXP")
  ELSE from_sexp_outer(
         AlgIdBody(d, curve,
                   _ksba_ber_write_tl(TYPE_SEQUENCE, CLASS_UNIVERSAL, TRUE,
                                      Len(IntTlvs(parms, idx, 1)))
                     \o IntTlvs(parms, idx, 1)),
         bitstr)

from_sexp_parmseq(parms, d, curve, bitstr) ==
  IF d.algoparmdesc # NullStr
    THEN from_sexp_algoparm(parms, d, curve, bitstr, IdxTbl(d.algoparmdesc, parms, FALSE))
  ELSE from_sexp_outer(AlgIdBody(d, curve, <<>>), bitstr)

\* The writer; oom = "writer" lets ksba_writer_new fail.
from_sexp_write(oom, parms, d, idxtbl, curve) ==
  IF oom = "writer" THEN KeyFail("GPG_ERR_ENOMEM")
  ELSE from_sexp_parmseq(parms, d, curve, BitString(parms, d, idxtbl))

from_sexp_idx(oom, parms, d, idxtbl) ==
  IF Len(idxtbl) # Len(d.parmdesc) THEN KeyFail("GPG_ERR_UNKNOWN_SEXP")
  ELSE IF d.pkalgo = "PKALGO_ECC" /\ get_ecc_curve_oid(parms[idxtbl[1]].value, oom).null
    THEN KeyFail("GPG_ERR_UNKNOWN_SEXP")
  ELSE IF d.pkalgo = "PKALGO_ECC"
    THEN from_sexp_write(oom, parms, d, idxtbl,
                         get_ecc_curve_oid(parms[idxtbl[1]].value, oom))
  ELSE from_sexp_write(oom, parms, d, idxtbl, NoCurve)

from_sexp_desc(oom, parms, d) ==
  IF d.err # OK THEN KeyFail(d.err)
  ELSE from_sexp_idx(oom, parms, d, IdxTbl(d.parmdesc, parms, TRUE))

\* The closing parenthesis of the whole expression at s[i].
from_sexp_end(s, oom, o, parms, i) ==
  IF At(s, i) # 41 THEN KeyFail("GPG_ERR_INV_SEXP")
  ELSE from_sexp_desc(oom, parms, KeyParmDesc(o, parms))

\* Behind the collected values c: the optional elements.
from_sexp_close(s, oom, o, c) ==
  IF c.err # OK THEN KeyFail(c.err)
  ELSE IF At(s, c.i + 1) = 40 /\ sskip(s, c.i + 1, 1).err # OK
    THEN KeyFail(sskip(s, c.i + 1, 1).err)
  ELSE IF At(s, c.i + 1) = 40
    THEN from_sexp_end(s, oom, o, c.parms, sskip(s, c.i + 1, 1).i)
  ELSE from_sexp_end(s, oom, o, c.parms, c.i + 1)

\* Behind the algorithm o that oid_from_buffer found; the values begin
\* at s[i].
from_sexp_values(s, oom, o, i) ==
  IF o.null THEN KeyFail("GPG_ERR_UNSUPPORTED_ALGORITHM")
  ELSE from_sexp_close(s, oom, o, CollectParms(s, i, <<>>))

\* Behind the length r of the algorithm's name.
from_sexp_algo(s, oom, r) ==
  IF r.n = 0 \/ At(s, r.i) # 58 THEN KeyFail("GPG_ERR_INV_SEXP")
  ELSE from_sexp_values(s, oom, oid_from_buffer(Peek(s, r.i, r.n), FALSE), r.i + 1 + r.n)

\* Behind the length r of the first token.
from_sexp_tag(s, oom, r) ==
  IF r.n = 0 \/ At(s, r.i) # 58 THEN KeyFail("GPG_ERR_INV_SEXP")
  ELSE IF r.n # 10 \/ Peek(s, r.i, 10) # Str_public_key
    THEN KeyFail("GPG_ERR_UNKNOWN_SEXP")
  ELSE IF At(s, r.i + 11) # 40 THEN KeyFail(NoListError(At(s, r.i + 11)))
  ELSE from_sexp_algo(s, oom, strtoul(s, r.i + 12))

\* _ksba_keyinfo_from_sexp: the DER SubjectPublicKeyInfo of the canonical
\* S-expression s.
keyinfo_from_sexp(s, oom) ==
  IF At(s, 1) # 40 THEN KeyFail("GPG_ERR_INV_SEXP")
  ELSE from_sexp_tag(s, oom, strtoul(s, 2))

(***************************************************************************)
(*   The keys and the S-expressions the two conversions are run on         *)
(***************************************************************************)

KeyLen == 32
BigLen == 129

\* The strings of the S-expressions below, as their ASCII codes.
Str_ecc == <<101, 99, 99>>    \* "ecc"
Str_q == <<113>>    \* "q"
Str_1_3_101_112 == <<49, 46, 51, 46, 49, 48, 49, 46, 49, 49, 50>>    \* "1.3.101.112"
Str_NIST_P_256 == <<78, 73, 83, 84, 32, 80, 45, 50, 53, 54>>    \* "NIST P-256"
Str_oid_1_2_840_10045_3_1_7 == <<111, 105, 100, 46, 49, 46, 50, 46, 56, 52, 48, 46, 49, 48, 48, 52, 53, 46, 51, 46, 49, 46, 55>>    \* "oid.1.2.840.10045.3.1.7"
Str_Ed25518 == <<69, 100, 50, 53, 53, 49, 56>>    \* "Ed25518"
Str_oid_1_2_840_113549_1_1_1 == <<111, 105, 100, 46, 49, 46, 50, 46, 56, 52, 48, 46, 49, 49, 51, 53, 52, 57, 46, 49, 46, 49, 46, 49>>    \* "oid.1.2.840.113549.1.1.1"
Str_n == <<110>>    \* "n"
Str_e == <<101>>    \* "e"
Str_rsa == <<114, 115, 97>>    \* "rsa"
Str_comment == <<99, 111, 109, 109, 101, 110, 116>>    \* "comment"
Str_x == <<120>>    \* "x"
Str_dsa == <<100, 115, 97>>    \* "dsa"
Str_y == <<121>>    \* "y"
Str_p == <<112>>    \* "p"
Str_g == <<103>>    \* "g"
Str_elg == <<101, 108, 103>>    \* "elg"
Str_private_key == <<112, 114, 105, 118, 97, 116, 101, 45, 107, 101, 121>>    \* "private-key"

\* A TLV in DER with the identifier octet id.
DerTLV(id, value) ==
  <<id>> \o (IF Len(value) < 128 THEN <<Len(value)>>
             ELSE <<128 + Len(BigEndian(Len(value)))>> \o BigEndian(Len(value)))
         \o value

\* A SubjectPublicKeyInfo: AlgorithmIdentifier of oid and parm, and the
\* BIT STRING of unused bits and payload.
KeyDer(oid, parm, unused, payload) ==
  DerTLV(48, DerTLV(48, DerTLV(6, oid) \o parm) \o DerTLV(3, <<unused>> \o payload))

\* One token of a canonical S-expression.
Canon(t) == ToDec(Len(t)) \o <<58>> \o t

\* The list (name value).
CanonPair(name, value) == <<40>> \o Canon(name) \o Canon(value) \o <<41>>

RECURSIVE CanonPairs(_)
CanonPairs(pairs) ==
  IF pairs = <<>> THEN <<>>
  ELSE CanonPair(pairs[1][1], pairs[1][2]) \o CanonPairs(Tail(pairs))

\* (public-key (algo pairs...) tail)
PublicKey(algo, pairs, tail) ==
  <<40>> \o Canon(Str_public_key) \o <<40>> \o Canon(algo) \o CanonPairs(pairs)
    \o <<41>> \o tail \o <<41>>

RawKey == [k \in 1..KeyLen |-> 160 + k]
BigInt == [k \in 1..BigLen |-> IF k = 1 THEN 0 ELSE 255]
Moduli == {<<0, 193, 5>>, BigInt}
Exponents == {<<3>>, <<1, 0, 1>>}
DsaP == <<0, 251>>
DsaQ == <<11>>
DsaG == <<7>>
DsaY == <<0, 200>>
NistP256 == <<42, 134, 72, 206, 61, 3, 1, 7>>        \* 1.2.840.10045.3.1.7
DerNull == <<5, 0>>

\* An input: a DER key ("der") or an S-expression ("sexp"), the index
\* of its algorithm in pk_algo_table (0 for none), the kind of its
\* parameters, the unused bits of its BIT STRING, whether it is a valid
\* key of its algorithm, and its values.
KeyInput(kind, bytes, entry, parm, unused, valid, a, b) ==
  [kind |-> kind, bytes |-> bytes, entry |-> entry, parm |-> parm,
   unused |-> unused, valid |-> valid, a |-> a, b |-> b]

RsaKeys ==
  { KeyInput("der",
             KeyDer(pk_algo_table[c[1]].oid, IF c[2] = "null" THEN DerNull ELSE <<>>, c[3],
                    DerTLV(48, DerTLV(2, c[4]) \o DerTLV(2, c[5]))),
             c[1], c[2], c[3], c[2] = "null" /\ c[3] = 0, c[4], c[5])
    : c \in (1..4) \X {"null", "absent"} \X {0, 3} \X Moduli \X Exponents }

DsaKeys ==
  { KeyInput("der",
             KeyDer(pk_algo_table[5].oid,
                    IF parm = "pqg"
                      THEN DerTLV(48, DerTLV(2, DsaP) \o DerTLV(2, DsaQ) \o DerTLV(2, DsaG))
                    ELSE <<>>,
                    0, DerTLV(2, DsaY)),
             5, parm, 0, parm = "pqg", DsaY, <<>>)
    : parm \in {"pqg", "absent"} }

EccKeys ==
  { KeyInput("der",
             KeyDer(pk_algo_table[6].oid,
                    IF parm = "oid" THEN DerTLV(6, NistP256)
                    ELSE IF parm = "seq" THEN DerTLV(48, DerTLV(2, <<1>>))
                    ELSE <<>>,
                    0, <<4>> \o RawKey),
             6, parm, 0, parm = "oid", <<4>> \o RawKey, NistP256)
    : parm \in {"oid", "seq", "absent"} }

\* X25519, X448, Ed25519 and Ed448: no parameters, the raw key.
RawKeys ==
  { KeyInput("der", KeyDer(pk_algo_table[i].oid, <<>>, 0, RawKey),
             i, "absent", 0, TRUE, RawKey, <<>>)
    : i \in 7..10 }

OddKeys ==
  { KeyInput("der", bytes, 0, "absent", 0, FALSE, <<>>, <<>>)
    : bytes \in { <<>>,
                  <<49, 0>>,
                  <<48, 128>>,
                  KeyDer(<<42, 3>>, DerNull, 0, RawKey),
                  SubSeq(KeyDer(pk_algo_table[9].oid, <<>>, 0, RawKey), 1, 9) } }

Sexp(bytes, a, b) == KeyInput("sexp", bytes, 0, "absent", 0, FALSE, a, b)

EdSexps ==
  { Sexp(PublicKey(Str_ecc, << <<Str_curve, name>>, <<Str_q, RawKey>> >>, <<>>), RawKey, name)
    : name \in { Str_Ed25519, Str_Ed448, Str_1_3_101_112, Str_NIST_P_256,
                 Str_oid_1_2_840_10045_3_1_7, Str_Ed25518 } }

OtherSexps ==
  { Sexp(bytes, <<>>, <<>>)
    : bytes \in
        { PublicKey(Str_ecc, << <<Str_q, RawKey>> >>, <<>>),
          PublicKey(Str_ecc, << <<Str_q, RawKey>>, <<Str_curve, Str_Ed448>> >>, <<>>),
          PublicKey(Str_1_3_101_112, << <<Str_q, RawKey>> >>, <<>>),
          PublicKey(Str_oid_1_2_840_113549_1_1_1, << <<Str_n, <<0, 193, 5>> >>, <<Str_e, <<3>> >> >>, <<>>),
          PublicKey(Str_rsa, << <<Str_e, <<3>> >>, <<Str_n, <<0, 193, 5>> >> >>, <<>>),
          PublicKey(Str_rsa, << <<Str_n, <<0, 193, 5>> >> >>, <<>>),
          PublicKey(Str_rsa, << <<Str_n, <<0, 193, 5>> >>, <<Str_e, <<3>> >> >>,
                    CanonPair(Str_comment, Str_x)),
          PublicKey(Str_dsa, << <<Str_y, DsaY>>, <<Str_p, DsaP>>, <<Str_q, DsaQ>>, <<Str_g, DsaG>> >>, <<>>),
          PublicKey(Str_dsa, << <<Str_y, DsaY>>, <<Str_p, DsaP>>, <<Str_q, DsaQ>> >>, <<>>),
          PublicKey(Str_elg, << <<Str_y, DsaY>> >>, <<>>),
          <<40>> \o Canon(Str_private_key) \o <<41>>,
          Canon(Str_public_key),
          <<40, 41>>,
          <<40>> \o Canon(Str_public_key) \o Canon(Str_rsa) \o <<41>>,
          <<40>> \o Canon(Str_public_key) \o <<41>> } }

KeyInputs == RsaKeys \cup DsaKeys \cup EccKeys \cup RawKeys \cup OddKeys
               \cup EdSexps \cup OtherSexps

NoKeyResult == [err |-> "none", bytes |-> <<>>, oom |-> "none"]

\* _ksba_keyinfo_to_sexp on the DER key
_ksba_keyinfo_to_sexp ==
  /\ kpc = "start"
  /\ kin.kind = "der"
  /\ \E oom \in {"none", "parm_oid", "stringbuf"} :
       ksexp' = [err |-> keyinfo_to_sexp(kin.bytes, oom).err,
                 bytes |-> keyinfo_to_sexp(kin.bytes, oom).sexp,
                 oom |-> oom]
  /\ kpc' = "sexp"
  /\ UNCHANGED <<kin, kder, certVars, algVars, cmsVars>>

\* _ksba_keyinfo_from_sexp on the S-expression that was given or that
\* _ksba_keyinfo_to_sexp returned
_ksba_keyinfo_from_sexp ==
  /\ \/ kpc = "start" /\ kin.kind = "sexp"
     \/ kpc = "sexp" /\ kin.kind = "der" /\ ksexp.err = OK
  /\ \E oom \in {"none", "curve_oid", "writer"} :
       kder' = [err |-> keyinfo_from_sexp(IF kin.kind = "sexp" THEN kin.bytes ELSE ksexp.bytes, oom).err,
                bytes |-> keyinfo_from_sexp(IF kin.kind = "sexp" THEN kin.bytes ELSE ksexp.bytes, oom).der,
                oom |-> oom]
  /\ kpc' = "done"
  /\ UNCHANGED <<kin, ksexp, certVars, algVars, cmsVars>>

InitKey ==
  /\ FreshCert /\ IdleAlg /\ IdleCms
  /\ kin \in KeyInputs
  /\ ksexp = NoKeyResult
  /\ kder = NoKeyResult
  /\ kpc = "start"

NextKey == _ksba_keyinfo_to_sexp \/ _ksba_keyinfo_from_sexp

SpecKey == InitKey /\ [][NextKey]_vars

(***************************************************************************)
(*   Claims on the conversions between key and S-expression                *)
(***************************************************************************)

OidRsaEncryption == <<42, 134, 72, 134, 247, 13, 1, 1, 1>>   \* 1.2.840.113549.1.1.1
OidEd25519 == <<43, 101, 112>>                               \* 1.3.101.112
OidEd448 == <<43, 101, 113>>                                 \* 1.3.101.113

\* No allocation failed in either conversion.
NoAllocationFailed == ksexp.oom = "none" /\ kder.oom = "none"

\* _ksba_keyinfo_to_sexp has returned.
ToSexpReturned == kin.kind = "der" /\ kpc \in {"sexp", "done"}

\* _ksba_keyinfo_from_sexp has returned.
FromSexpReturned == kpc = "done"

\* The key is a valid key of an algorithm the table marks supported.
ValidSupportedKey ==
  kin.kind = "der" /\ kin.valid /\ kin.entry # 0 /\ pk_algo_table[kin.entry].supported # 0

\* C5: for every OID of the public-key table that is marked supported and
\* every valid DER SubjectPublicKeyInfo k with that OID,
\* _ksba_keyinfo_from_sexp (_ksba_keyinfo_to_sexp (k)) succeeds and
\* returns bytes identical to k.
C5_RoundTripIsIdentity ==
  (ValidSupportedKey /\ NoAllocationFailed)
    => /\ ToSexpReturned => ksexp.err = OK
       /\ FromSexpReturned => kder.err = OK /\ kder.bytes = kin.bytes

\* The key is rsaEncryption with NULL parameters, no unused bits and the
\* payload SEQUENCE { INTEGER n, INTEGER e }, n being kin.a and e kin.b.
IsRsaKey ==
  /\ kin.kind = "der"
  /\ kin.bytes = KeyDer(OidRsaEncryption, DerNull, 0,
                        DerTLV(48, DerTLV(2, kin.a) \o DerTLV(2, kin.b)))

\* C6: for every DER SubjectPublicKeyInfo with OID rsaEncryption, NULL
\* parameters, zero unused bits and payload SEQUENCE { INTEGER n,
\* INTEGER e }, _ksba_keyinfo_to_sexp yields (public-key(rsa(n N)(e E)))
\* with N and E the bytes of the INTEGERs verbatim and in that order, and
\* _ksba_keyinfo_from_sexp of that S-expression returns the original DER
\* (if no allocation fails).
C6_RsaRoundTrip ==
  (IsRsaKey /\ NoAllocationFailed)
    => /\ ToSexpReturned
            => /\ ksexp.err = OK
               /\ ksexp.bytes = PublicKey(Str_rsa, << <<Str_n, kin.a>>, <<Str_e, kin.b>> >>, <<>>)
       /\ FromSexpReturned => kder.err = OK /\ kder.bytes = kin.bytes

\* An RSA key whose modulus needs the long form of the length has gone
\* through both conversions.
C6_Witness ==
  /\ IsRsaKey /\ NoAllocationFailed
  /\ kin.a = BigInt
  /\ FromSexpReturned /\ kder.err = OK

\* The key is Ed25519 without parameters and with the KeyLen bytes RawKey.
IsEd25519Key ==
  kin.kind = "der" /\ kin.bytes = KeyDer(OidEd25519, <<>>, 0, RawKey)

\* C7: for a DER SubjectPublicKeyInfo with algorithm OID 1.3.101.112, no
\* parameters and a 32-byte key K, _ksba_keyinfo_to_sexp returns
\* (public-key(ecc(curve "1.3.101.112")(q K))).
C7_Ed25519HasCurve ==
  (IsEd25519Key /\ ToSexpReturned /\ ksexp.oom = "none")
    => /\ ksexp.err = OK
       /\ ksexp.bytes = PublicKey(Str_ecc, << <<Str_curve, Str_1_3_101_112>>,
                                            <<Str_q, RawKey>> >>, <<>>)

\* The S-expression is (public-key(ecc(curve name)(q Q))), Q being kin.a.
IsEccSexp(name) ==
  /\ kin.kind = "sexp"
  /\ kin.bytes = PublicKey(Str_ecc, << <<Str_curve, name>>, <<Str_q, kin.a>> >>, <<>>)

\* C8: _ksba_keyinfo_from_sexp of (public-key(ecc(curve Ed25519)(q Q)))
\* emits a SubjectPublicKeyInfo with OID 1.3.101.112 and no parameters,
\* of curve Ed448 one with OID 1.3.101.113 and no parameters; in both the
\* BIT STRING is one zero octet followed by Q.
C8_EdCurvesGetTheirOid ==
  (FromSexpReturned /\ kder.oom = "none")
    => /\ IsEccSexp(Str_Ed25519)
            => kder.err = OK /\ kder.bytes = KeyDer(OidEd25519, <<>>, 0, kin.a)
       /\ IsEccSexp(Str_Ed448)
            => kder.err = OK /\ kder.bytes = KeyDer(OidEd448, <<>>, 0, kin.a)

(***************************************************************************)
(*   F.  Signature values, encrypted values and RSA-PSS parameters         *)
(*       (keyinfo.c)                                                       *)
(*                                                                         *)
(* The parsers of single elements (parse_sequence, parse_context_tag,      *)
(* parse_object_id_into_str, parse_optional_null, parse_integer) are not   *)
(* among the sources at hand; they follow the design: a structural         *)
(* mismatch is INV_OBJ, a broken encoding is BAD_BER.                      *)
(***************************************************************************)

\* The one element of a singleton: The({ e(r) : r \in {x} }) is e(x), with
\* x evaluated once.
The(S) == CHOOSE v \in S : TRUE

enc_algo_table == <<
    \* 1.2.840.113549.1.1.1 (rsa), keyinfo.c:264-267
    [oidstring |-> <<49, 46, 50, 46, 56, 52, 48, 46, 49, 49, 51, 53, 52, 57, 46, 49, 46, 49, 46, 49>>,
     oid |-> <<42, 134, 72, 134, 247, 13, 1, 1, 1>>, oidlen |-> 9,
     supported |-> 1, pkalgo |-> "PKALGO_RSA", algo_string |-> <<114, 115, 97>>,
     elem_string |-> <<97>>, ctrl_string |-> <<130>>,
     parmelem_string |-> NullStr, parmctrl_string |-> NullStr,
     digest_string |-> NullStr],
    \* 1.2.840.10045.2.1 (ecdh), keyinfo.c:268-271
    [oidstring |-> <<49, 46, 50, 46, 56, 52, 48, 46, 49, 48, 48, 52, 53, 46, 50, 46, 49>>,
     oid |-> <<42, 134, 72, 206, 61, 2, 1>>, oidlen |-> 7,
     supported |-> 1, pkalgo |-> "PKALGO_ECC", algo_string |-> <<101, 99, 100, 104>>,
     elem_string |-> <<101>>, ctrl_string |-> <<128>>,
     parmelem_string |-> NullStr, parmctrl_string |-> NullStr,
     digest_string |-> NullStr] >>

\* The header of one element at offset p of b, checked against what is
\* expected: class, constructed, and (for want_tag # -1) the tag.  p is
\* the offset behind the header.  An element that is not there or is of
\* another kind is INV_OBJ, a context tag with another number is FALSE.
parse_element(b, p, class, cons, want_tag) ==
  IF p >= Len(b) THEN [err |-> "GPG_ERR_INV_OBJ", p |-> p, length |-> 0]
  ELSE The({ IF ti.err # OK THEN [err |-> "GPG_ERR_BAD_BER", p |-> p, length |-> 0]
             ELSE IF ti.class # class \/ ti.is_constructed # cons
                     \/ (class = CLASS_UNIVERSAL /\ ti.tag # want_tag)
               THEN [err |-> "GPG_ERR_INV_OBJ", p |-> p, length |-> 0]
             ELSE IF ti.ndef \/ ti.length > Len(b) - (p + ti.nhdr)
               THEN [err |-> "GPG_ERR_BAD_BER", p |-> p, length |-> 0]
             ELSE IF ti.tag # want_tag
               THEN [err |-> "GPG_ERR_FALSE", p |-> p + ti.nhdr, length |-> ti.length]
             ELSE [err |-> OK, p |-> p + ti.nhdr, length |-> ti.length]
             : ti \in {_ksba_ber_read_tl(b, p)} })

parse_sequence(b, p) == parse_element(b, p, CLASS_UNIVERSAL, TRUE, TYPE_SEQUENCE)
parse_context_tag(b, p, tag) == parse_element(b, p, CLASS_CONTEXT, TRUE, tag)
parse_integer(b, p) == parse_element(b, p, CLASS_UNIVERSAL, FALSE, TYPE_INTEGER)

\* parse_object_id_into_str: the dotted string of the OID at offset p
\* and the offset behind it.
parse_object_id_into_str(b, p) ==
  The({ IF h.err # OK THEN [err |-> h.err, p |-> p, str |-> <<>>]
        ELSE IF h.length = 0 THEN [err |-> "GPG_ERR_BAD_BER", p |-> p, str |-> <<>>]
        ELSE [err |-> OK, p |-> h.p + h.length,
              str |-> ksba_oid_to_str(Slice(b, h.p, h.length))]
        : h \in {parse_element(b, p, CLASS_UNIVERSAL, FALSE, TYPE_OBJECT_ID)} })

\* parse_optional_null: steps over a NULL at offset p if there is one.
parse_optional_null(b, p) ==
  The({ IF h.err # OK THEN [err |-> OK, p |-> p]
        ELSE IF h.length # 0 THEN [err |-> "GPG_ERR_BAD_BER", p |-> p]
        ELSE [err |-> OK, p |-> h.p]
        : h \in {parse_element(b, p, CLASS_UNIVERSAL, FALSE, TYPE_NULL)} })

UIntOctets == 4      \* unsigned int saltlen

\* The unsigned int of value n, as its octets from the highest down.
UInt(n) == [i \in 1..UIntOctets |-> (n \div (256 ^ (UIntOctets - i))) % 256]

RECURSIVE UIntDiv10(_, _, _, _)
\* w divided by ten, octet by octet from i on: quotient and remainder.
UIntDiv10(w, i, r, q) ==
  IF i > Len(w) THEN [q |-> q, r |-> r]
  ELSE UIntDiv10(w, i + 1, (r * 256 + w[i]) % 10, Append(q, (r * 256 + w[i]) \div 10))

RECURSIVE UIntDec(_)
\* snprintf "%u": the decimal digits of the unsigned int w.
UIntDec(w) ==
  IF \A i \in 1..Len(w) : w[i] = 0 THEN <<48>>
  ELSE (IF \A i \in 1..Len(w) : UIntDiv10(w, 1, 0, <<>>).q[i] = 0 THEN <<>>
        ELSE UIntDec(UIntDiv10(w, 1, 0, <<>>).q))
         \o <<48 + UIntDiv10(w, 1, 0, <<>>).r>>

Str_pkcs1_MGF == <<49, 46, 50, 46, 56, 52, 48, 46, 49, 49, 51, 53, 52, 57, 46, 49, 46, 49, 46, 56>>    \* "1.2.840.113549.1.1.8"

PssFail(e) == [err |-> e, psshash |-> NoOid, saltlen |-> UInt(0)]

RECURSIVE SaltLength(_, _)
\* The loop that shifts the bytes of the INTEGER into saltlen; the
\* octet shifted out at the top is lost.
SaltLength(bytes, saltlen) ==
  IF bytes = <<>> THEN saltlen
  ELSE SaltLength(Tail(bytes),
                  [i \in 1..UIntOctets |->
                     IF i < UIntOctets THEN saltlen[i + 1] ELSE Head(bytes)])

\* "Get the hash algo": the offset behind the [0] element and its OID.
\* oom = "psshash" lets the allocation of the string fail.
pss_hash(b, oom) ==
  The({ The({ The({ The({ The({
    IF s0.err # OK THEN [err |-> s0.err, p |-> 0, str |-> <<>>]
    ELSE IF \/ c0.err # OK \/ s1.err # OK \/ h.err # OK \/ oom = "psshash"
            \/ n.err # OK
      THEN [err |-> "GPG_ERR_INV_OBJ", p |-> 0, str |-> <<>>]
    ELSE [err |-> OK, p |-> n.p, str |-> h.str]
    : n \in {parse_optional_null(b, h.p)} })
    : h \in {parse_object_id_into_str(b, s1.p)} })
    : s1 \in {parse_sequence(b, c0.p)} })
    : c0 \in {parse_context_tag(b, s0.p, 0)} })
    : s0 \in {parse_sequence(b, 0)} })

\* The same without the comparison of the MGF OID with pkcs1-MGF.
pss_mgf_wrong(b, p, psshash) ==
  The({ The({ The({ The({ The({ The({
    IF c1.err # OK THEN [err |-> "GPG_ERR_INV_OBJ", p |-> 0]
    ELSE IF s2.err # OK THEN [err |-> s2.err, p |-> 0]
    ELSE IF m.err # OK THEN [err |-> "GPG_ERR_INV_OBJ", p |-> 0]
    ELSE IF s3.err # OK THEN [err |-> s3.err, p |-> 0]
    ELSE IF t.err # OK \/ t.str # psshash \/ n.err # OK
      THEN [err |-> "GPG_ERR_INV_OBJ", p |-> 0]
    ELSE [err |-> OK, p |-> n.p]
    : n \in {parse_optional_null(b, t.p)} })
    : t \in {parse_object_id_into_str(b, s3.p)} })
    : s3 \in {parse_sequence(b, m.p)} })
    : m \in {parse_object_id_into_str(b, s2.p)} })
    : s2 \in {parse_sequence(b, c1.p)} })
    : c1 \in {parse_context_tag(b, p, 1)} })

\* "Check the MGF OID and that its hash algo matches", from offset p on:
\* the offset behind the [1] element.
pss_mgf(b, p, psshash) ==
  The({ The({ The({ The({ The({ The({
    IF c1.err # OK THEN [err |-> "GPG_ERR_INV_OBJ", p |-> 0]
    ELSE IF s2.err # OK THEN [err |-> s2.err, p |-> 0]
    ELSE IF m.err # OK \/ m.str # Str_pkcs1_MGF THEN [err |-> "GPG_ERR_INV_OBJ", p |-> 0]
    ELSE IF s3.err # OK THEN [err |-> s3.err, p |-> 0]
    ELSE IF t.err # OK \/ t.str # psshash \/ n.err # OK
      THEN [err |-> "GPG_ERR_INV_OBJ", p |-> 0]
    ELSE [err |-> OK, p |-> n.p]
    : n \in {parse_optional_null(b, t.p)} })
    : t \in {parse_object_id_into_str(b, s3.p)} })
    : s3 \in {parse_sequence(b, m.p)} })
    : m \in {parse_object_id_into_str(b, s2.p)} })
    : s2 \in {parse_sequence(b, c1.p)} })
    : c1 \in {parse_context_tag(b, p, 1)} })

\* "Get the optional saltLength", from offset p on.
pss_salt(b, p) ==
  The({ The({
    IF c2.err \in {"GPG_ERR_INV_OBJ", "GPG_ERR_FALSE"} THEN [err |-> OK, saltlen |-> UInt(20)]
    ELSE IF c2.err # OK THEN [err |-> "GPG_ERR_INV_OBJ", saltlen |-> UInt(0)]
    ELSE IF i.err # OK THEN [err |-> i.err, saltlen |-> UInt(0)]
    ELSE [err |-> OK, saltlen |-> SaltLength(Slice(b, i.p, i.length), UInt(0))]
    : i \in {parse_integer(b, c2.p)} })
    : c2 \in {parse_context_tag(b, p, 2)} })

\* _ksba_keyinfo_get_pss_info on the parameter bytes b: the error, the
\* hash OID as a string and the salt length.
_ksba_keyinfo_get_pss_info(b, oom) ==
  The({ The({ The({
    IF h.err # OK THEN PssFail(h.err)
    ELSE IF m.err # OK THEN PssFail(m.err)
    ELSE IF s.err # OK THEN PssFail(s.err)
    ELSE [err |-> OK, psshash |-> [null |-> FALSE, str |-> h.str], saltlen |-> s.saltlen]
    : s \in {pss_salt(b, m.p)} })
    : m \in {pss_mgf(b, h.p, h.str)} })
    : h \in {pss_hash(b, oom)} })

Str_open_sig_val == <<40, 55, 58, 115, 105, 103, 45, 118, 97, 108, 40>>             \* "(7:sig-val("
Str_open_enc_val == <<40, 55, 58, 101, 110, 99, 45, 118, 97, 108, 40>>             \* "(7:enc-val("
Str_open_hash == <<40, 52, 58, 104, 97, 115, 104>>                    \* "(4:hash"
Str_flags_pss == <<40, 53, 58, 102, 108, 97, 103, 115, 51, 58, 112, 115, 115, 41>>             \* "(5:flags3:pss)"
Str_open_hash_algo == <<40, 57, 58, 104, 97, 115, 104, 45, 97, 108, 103, 111>>          \* "(9:hash-algo"
Str_open_salt_length == <<40, 49, 49, 58, 115, 97, 108, 116, 45, 108, 101, 110, 103, 116, 104>>     \* "(11:salt-length"
Str_open_encr_algo == <<40, 57, 58, 101, 110, 99, 114, 45, 97, 108, 103, 111>>          \* "(9:encr-algo"
Str_open_wrap_algo == <<41, 40, 57, 58, 119, 114, 97, 112, 45, 97, 108, 103, 111>>         \* ")(9:wrap-algo"
Str_open_s == <<40, 49, 58, 115>>                          \* "(1:s"

\* The lookup of the OID bytes in an algorithm table: the index at which
\* the loop breaks, 0 for the end of the table.
AlgoLookup(table, bytes) ==
  FirstEntry([i \in 1..Len(table) |-> SameOid(table[i], bytes)])

\* What stands at and behind the end of a control descriptor: the NUL
\* that ends the string literal, then a byte of whatever the build has
\* placed behind it.
CtrlTails == { <<0, c>> : c \in {0, 2, 128} }

\* tail is what the walk finds at and behind the end of the control
\* descriptor of the entry.
\* cryptval_to_sexp from "der += nread" on, with the table entry e, the
\* result a of get_algorithm and the result pss of the RSA-PSS parameters
\* (pss.psshash is NULL if there were none).
cryptval_value(mode, b, keyencralgo, keywrapalgo, encrkey, oom, tail, e, a, pss) ==
  IF a.bitstr = 1 /\ a.nread >= Len(b) THEN SexpFail("GPG_ERR_INV_KEYINFO")
  ELSE The({
    IF w.err # OK THEN SexpFail(w.err)
    ELSE IF oom = "stringbuf" THEN SexpFail("GPG_ERR_ENOMEM")
    ELSE [err |-> OK,
          sexp |-> w.out
            \o (IF mode = 2
                  THEN Str_open_s \o put_stringbuf_sexp(encrkey) \o <<41>>
                ELSE <<>>)
            \o <<41>>
            \o (IF mode = 0 /\ e.digest_string # NullStr
                  THEN Str_open_hash \o put_stringbuf_sexp(e.digest_string) \o <<41>>
                ELSE <<>>)
            \o (IF mode = 0 /\ ~pss.psshash.null
                  THEN Str_flags_pss
                         \o Str_open_hash_algo \o put_stringbuf_sexp(pss.psshash.str) \o <<41>>
                         \o Str_open_salt_length \o put_stringbuf_sexp(UIntDec(pss.saltlen)) \o <<41>>
                ELSE <<>>)
            \o (IF mode = 2
                  THEN Str_open_encr_algo \o put_stringbuf_sexp(keyencralgo)
                         \o Str_open_wrap_algo \o put_stringbuf_sexp(keywrapalgo) \o <<41>>
                ELSE <<>>)
            \o <<41>>]
    : w \in {ElemWalk(e.elem_string, e.ctrl_string \o tail, 1, b,
                      IF a.bitstr = 1 THEN a.nread + 1 ELSE a.nread,
                      (IF mode = 0 THEN Str_open_sig_val ELSE Str_open_enc_val)
                        \o put_stringbuf_sexp(e.algo_string))} })

\* cryptval_to_sexp behind the lookup in table, which gave algoidx.
cryptval_entry(mode, b, keyencralgo, keywrapalgo, encrkey, oom, tail, table, a, algoidx) ==
  IF algoidx = 0 THEN SexpFail("GPG_ERR_UNKNOWN_ALGORITHM")
  ELSE IF table[algoidx].supported = 0 THEN SexpFail("GPG_ERR_UNSUPPORTED_ALGORITHM")
  ELSE IF a.parm_type = TYPE_SEQUENCE /\ table[algoidx].supported = 2
    THEN The({
      IF pss.err \notin {OK, "GPG_ERR_INV_OBJ"} THEN SexpFail(pss.err)
      ELSE cryptval_value(mode, b, keyencralgo, keywrapalgo, encrkey, oom, tail,
                          table[algoidx], a, pss)
      : pss \in {_ksba_keyinfo_get_pss_info(Slice(b, a.parm_pos, a.parm_len), oom)} })
  ELSE cryptval_value(mode, b, keyencralgo, keywrapalgo, encrkey, oom, tail,
                      table[algoidx], a, PssFail(OK))

\* cryptval_to_sexp: mode 0 for a signature value, 1 for an encrypted
\* value, 2 for an ECDH value.
cryptval_to_sexp(mode, b, keyencralgo, keywrapalgo, encrkey, oom, tail) ==
  The({
    IF a.err # OK THEN SexpFail(a.err)
    ELSE cryptval_entry(mode, b, keyencralgo, keywrapalgo, encrkey, oom, tail,
                        IF mode = 0 THEN sig_algo_table ELSE enc_algo_table, a,
                        AlgoLookup(IF mode = 0 THEN sig_algo_table ELSE enc_algo_table,
                                   Slice(b, a.pos, a.len)))
    : a \in {get_algorithm(1, b, TRUE)} })

\* _ksba_encval_kari_to_sexp: the [1] header is taken off and the rest
\* goes through cryptval_to_sexp in mode 2.
encval_kari_to_sexp(b, keyencralgo, keywrapalgo, enckey, oom, tail) ==
  The({
    IF h.err # OK THEN SexpFail(h.err)
    ELSE cryptval_to_sexp(2, Slice(b, h.p, Len(b) - h.p),
                          keyencralgo, keywrapalgo, enckey, oom, tail)
    : h \in {parse_context_tag(b, 0, 1)} })

Str_sig_val == <<115, 105, 103, 45, 118, 97, 108>>      \* "sig-val"

\* The switch on pkalgo of _ksba_algoinfo_from_sexp: "" for RSA, "" with
\* "pqg" for DSA, "C" for ECC.
AlgoParmDesc(o) ==
  IF o.pkalgo = "PKALGO_RSA" THEN KeyDesc("PKALGO_RSA", <<>>, NullStr, o.oid, o.oidlen)
  ELSE IF o.pkalgo = "PKALGO_DSA"
    THEN KeyDesc("PKALGO_DSA", <<>>, <<112, 113, 103>>, o.oid, o.oidlen)
  ELSE IF o.pkalgo = "PKALGO_ECC" THEN KeyDesc("PKALGO_ECC", <<67>>, NullStr, o.oid, o.oidlen)
  ELSE [err |-> "GPG_ERR_UNKNOWN_ALGORITHM"]

\* _ksba_algoinfo_from_sexp behind the closing parenthesis, with the
\* algorithm o and the collected parameters.
algoinfo_write(oom, o, parms) ==
  The({ The({ The({ The({
    IF d.err # OK THEN KeyFail(d.err)
    ELSE IF Len(idxtbl) # Len(d.parmdesc) THEN KeyFail("GPG_ERR_UNKNOWN_SEXP")
    ELSE IF d.pkalgo = "PKALGO_ECC" /\ curve.null THEN KeyFail("GPG_ERR_UNKNOWN_SEXP")
    ELSE IF oom = "writer" THEN KeyFail("GPG_ERR_ENOMEM")
    ELSE IF d.algoparmdesc # NullStr /\ Len(idx) # Len(d.algoparmdesc)
      THEN KeyFail("GPG_ERR_UNKNOWN_SEXP")
    ELSE The({
      [err |-> OK,
       der |-> _ksba_ber_write_tl(TYPE_SEQUENCE, CLASS_UNIVERSAL, TRUE, Len(body)) \o body]
      : body \in {AlgIdBody(d, curve,
                    IF d.algoparmdesc # NullStr
                      THEN _ksba_ber_write_tl(TYPE_SEQUENCE, CLASS_UNIVERSAL, TRUE,
                                              Len(IntTlvs(parms, idx, 1)))
                             \o IntTlvs(parms, idx, 1)
                    ELSE <<>>)} })
    : idx \in {IF d.err = OK /\ d.algoparmdesc # NullStr
                 THEN IdxTbl(d.algoparmdesc, parms, FALSE) ELSE <<>>} })
    : curve \in {IF d.err = OK /\ d.pkalgo = "PKALGO_ECC" /\ Len(idxtbl) = 1
                   THEN get_ecc_curve_oid(parms[idxtbl[1]].value, oom) ELSE NoCurve} })
    : idxtbl \in {IF d.err = OK THEN IdxTbl(d.parmdesc, parms, TRUE) ELSE <<>>} })
    : d \in {AlgoParmDesc(o)} })

\* _ksba_algoinfo_from_sexp behind the name of the algorithm, which
\* oid_from_buffer looked up as o; the values begin at s[i].
algoinfo_values(s, oom, o, i) ==
  IF o.null THEN KeyFail("GPG_ERR_UNSUPPORTED_ALGORITHM")
  ELSE The({ The({
    IF c.err # OK THEN KeyFail(c.err)
    ELSE IF k.err # OK THEN KeyFail(k.err)
    ELSE IF At(s, k.i) # 41 THEN KeyFail("GPG_ERR_INV_SEXP")
    ELSE algoinfo_write(oom, o, c.parms)
    : k \in {IF c.err = OK /\ At(s, c.i + 1) = 40 THEN sskip(s, c.i + 1, 1)
             ELSE [err |-> OK, i |-> c.i + 1]} })
    : c \in {CollectParms(s, i, <<>>)} })

\* _ksba_algoinfo_from_sexp: the DER AlgorithmIdentifier of the
\* algorithm named in a sig-val or public-key expression.
algoinfo_from_sexp(s, oom) ==
  IF At(s, 1) # 40 THEN KeyFail("GPG_ERR_INV_SEXP")
  ELSE The({ The({
    IF r.n = 0 \/ At(s, r.i) # 58 THEN KeyFail("GPG_ERR_INV_SEXP")
    ELSE IF ~(\/ r.n = 7 /\ Peek(s, r.i, 7) = Str_sig_val
              \/ r.n = 10 /\ Peek(s, r.i, 10) = Str_public_key)
      THEN KeyFail("GPG_ERR_UNKNOWN_SEXP")
    ELSE IF At(s, r.i + r.n + 1) # 40 THEN KeyFail(NoListError(At(s, r.i + r.n + 1)))
    ELSE IF a.n = 0 \/ At(s, a.i) # 58 THEN KeyFail("GPG_ERR_INV_SEXP")
    ELSE algoinfo_values(s, oom, oid_from_buffer(Peek(s, a.i, a.n), TRUE), a.i + 1 + a.n)
    : a \in {strtoul(s, r.i + r.n + 2)} })
    : r \in {strtoul(s, 2)} })

(***************************************************************************)
(*   The signature values, encrypted values, RSA-PSS parameters and        *)
(*   algorithm expressions the conversions are run on                      *)
(***************************************************************************)

OidSha256 == <<96, 134, 72, 1, 101, 3, 4, 2, 1>>       \* 2.16.840.1.101.3.4.2.1
OidSha512 == <<96, 134, 72, 1, 101, 3, 4, 2, 3>>       \* 2.16.840.1.101.3.4.2.3
OidMgf1 == <<42, 134, 72, 134, 247, 13, 1, 1, 8>>      \* 1.2.840.113549.1.1.8
OidUnknown == <<42, 3>>                                \* 1.2.3
Str_sha256 == <<50, 46, 49, 54, 46, 56, 52, 48, 46, 49, 46, 49, 48, 49, 46, 51, 46, 52, 46, 50, 46, 49>>
Str_sha512 == <<50, 46, 49, 54, 46, 56, 52, 48, 46, 49, 46, 49, 48, 49, 46, 51, 46, 52, 46, 50, 46, 51>>
Str_ecdsa == <<101, 99, 100, 115, 97>>
Str_sha_1 == <<115, 104, 97, 45, 49>>
Str_1_2_840_113549_1_1_7 == <<49, 46, 50, 46, 56, 52, 48, 46, 49, 49, 51, 53, 52, 57, 46, 49, 46, 49, 46, 55>>
Str_1_2_840_113549_1_1_5 == <<49, 46, 50, 46, 56, 52, 48, 46, 49, 49, 51, 53, 52, 57, 46, 49, 46, 49, 46, 53>>
Str_1_2_840_10040_4_3 == <<49, 46, 50, 46, 56, 52, 48, 46, 49, 48, 48, 52, 48, 46, 52, 46, 51>>
Str_2_16_840_1_101_3_4_3_2 == <<50, 46, 49, 54, 46, 56, 52, 48, 46, 49, 46, 49, 48, 49, 46, 51, 46, 52, 46, 51, 46, 50>>
Str_s == <<115>>
Str_r == <<114>>

\* RSASSA-PSS-params: [0] hashAlgorithm, [1] maskGenAlgorithm, and what
\* follows them.
PssParms(hash, mgf, mgfhash, rest) ==
  DerTLV(48, DerTLV(160, DerTLV(48, DerTLV(6, hash) \o DerNull))
               \o DerTLV(161, DerTLV(48, DerTLV(6, mgf)
                                           \o DerTLV(48, DerTLV(6, mgfhash) \o DerNull)))
               \o rest)

\* The salt lengths: the INTEGER's octets.
SaltInts == {<<20>>, <<64>>, <<0, 200>>, <<1, 0>>, <<1, 0, 0, 0, 0>>}

\* The [0] element of the parameters with SHA-256.
PssHashElement == DerTLV(160, DerTLV(48, DerTLV(6, OidSha256) \o DerNull))

\* Parameters that do not have the shape, each with the name of what is
\* wrong with it.
MalformedPss ==
  { <<"no_sequence", <<>> >>,
    <<"no_sequence", DerNull>>,
    <<"outer_broken", <<48, 255>> >>,
    <<"no_tag0", <<48, 0>> >>,
    <<"wrong_tag0", DerTLV(48, DerTLV(161, DerTLV(48, DerTLV(6, OidMgf1))))>>,
    <<"seq0_wrong", DerTLV(48, DerTLV(160, DerTLV(2, <<1>>)))>>,
    <<"no_hash", DerTLV(48, DerTLV(160, DerTLV(48, DerTLV(6, <<>>))))>>,
    <<"no_tag1", DerTLV(48, DerTLV(160, DerTLV(48, DerTLV(6, OidSha256))))>>,
    <<"wrong_tag1", DerTLV(48, PssHashElement \o DerTLV(163, DerTLV(2, <<1>>)))>>,
    <<"seq1_wrong", DerTLV(48, PssHashElement \o DerTLV(161, DerTLV(49, DerTLV(6, OidMgf1))))>>,
    <<"seq1_broken", DerTLV(48, PssHashElement \o DerTLV(161, <<48, 255>>))>>,
    <<"seq2_missing", DerTLV(48, PssHashElement \o DerTLV(161, DerTLV(48, DerTLV(6, OidMgf1))))>>,
    <<"seq2_wrong", DerTLV(48, PssHashElement
                              \o DerTLV(161, DerTLV(48, DerTLV(6, OidMgf1) \o DerTLV(6, OidSha256))))>>,
    <<"seq2_broken", DerTLV(48, PssHashElement
                               \o DerTLV(161, DerTLV(48, DerTLV(6, OidMgf1) \o <<48, 255>>)))>>,
    <<"mgf_oid_other", PssParms(OidSha256, OidSha256, OidSha256, <<>>)>>,
    <<"mgf_hash_differs", PssParms(OidSha256, OidMgf1, OidSha512, <<>>)>>,
    <<"salt_no_integer", PssParms(OidSha256, OidMgf1, OidSha256, DerTLV(162, DerTLV(4, <<32>>)))>>,
    <<"salt_untagged", PssParms(OidSha256, OidMgf1, OidSha256, DerTLV(2, <<32>>))>>,
    <<"salt_broken", PssParms(OidSha256, OidMgf1, OidSha256, <<162, 5, 2, 1, 32>>)>> }

\* An input of kind "pss": parm tells what follows [1] ("absent",
\* "trailer" for a [3] only, "present" for [2] INTEGER a), valid whether
\* the parameters are well formed, b is the hash OID.
PssInputs ==
  { KeyInput("pss", PssParms(h, OidMgf1, h, <<>>), 0, "absent", 0, TRUE, <<>>, h)
    : h \in {OidSha256, OidSha512} }
  \cup { KeyInput("pss", PssParms(h, OidMgf1, h, DerTLV(163, DerTLV(2, <<1>>))),
                  0, "trailer", 0, TRUE, <<>>, h)
         : h \in {OidSha256, OidSha512} }
  \cup { KeyInput("pss", PssParms(c[1], OidMgf1, c[1], DerTLV(162, DerTLV(2, c[2]))),
                  0, "present", 0, TRUE, c[2], c[1])
         : c \in {OidSha256, OidSha512} \X SaltInts }
  \cup { KeyInput("pss", c[2], 0, c[1], 0, FALSE, <<>>, <<>>)
         : c \in MalformedPss }

\* A signature or encrypted value: AlgorithmIdentifier of oid and parm,
\* then the value as the TLV of tag.
ValDer(oid, parm, tag, payload) ==
  DerTLV(48, DerTLV(6, oid) \o parm) \o DerTLV(tag, payload)

RS == DerTLV(48, DerTLV(2, DsaQ) \o DerTLV(2, DsaG))

\* An Ed25519 signature, raw as RFC 8410 has it, that happens to begin
\* with the octets 80 00 00 00.
EdSignature == <<128, 0, 0, 0>> \o RawKey

\* An input of kind "sigval": entry is the index of its algorithm in
\* sig_algo_table, 0 if it is in no table.
SigVals ==
  { KeyInput("sigval",
             ValDer(sig_algo_table[i].oid, DerNull, 3,
                    <<0>> \o (IF Len(sig_algo_table[i].ctrl_string) = 3 THEN RS ELSE RawKey)),
             i, "null", 0, sig_algo_table[i].supported # 0, <<>>, <<>>)
    : i \in {1, 3, 4, 5, 7, 10, 16, 20, 22, 23, 24} }
  \cup { KeyInput("sigval", ValDer(sig_algo_table[22].oid, k.bytes, 3, <<0>> \o RawKey),
                  22, k.parm, 0, k.valid, k.a, k.b)
         : k \in PssInputs }
  \cup { KeyInput("sigval", ValDer(sig_algo_table[24].oid, <<>>, 3, <<0>> \o EdSignature),
                  24, "absent", 0, TRUE, <<>>, <<>>),
         KeyInput("sigval", ValDer(OidUnknown, DerNull, 3, <<0>> \o RawKey),
                  0, "null", 0, FALSE, <<>>, <<>>),
         KeyInput("sigval", <<48, 0>>, 0, "broken", 0, FALSE, <<>>, <<>>) }

\* An input of kind "encval" (entry in enc_algo_table), or "kari": the
\* same behind a [1] header.
EncVals ==
  { KeyInput("encval", ValDer(enc_algo_table[1].oid, DerNull, 4, RawKey),
             1, "null", 0, TRUE, <<>>, <<>>),
    KeyInput("encval", ValDer(OidUnknown, DerNull, 4, RawKey),
             0, "null", 0, FALSE, <<>>, <<>>),
    KeyInput("encval", ValDer(sig_algo_table[1].oid, DerNull, 4, RawKey),
             0, "null", 0, FALSE, <<>>, <<>>),
    KeyInput("kari", DerTLV(161, ValDer(enc_algo_table[2].oid, <<>>, 3, <<0, 4>> \o RawKey)),
             2, "absent", 0, TRUE, <<>>, <<>>),
    KeyInput("kari", DerTLV(161, ValDer(OidUnknown, <<>>, 3, <<0, 4>> \o RawKey)),
             0, "absent", 0, FALSE, <<>>, <<>>),
    KeyInput("kari", DerTLV(160, ValDer(enc_algo_table[2].oid, <<>>, 3, <<0, 4>> \o RawKey)),
             2, "broken", 0, FALSE, <<>>, <<>>) }

\* The arguments of _ksba_encval_kari_to_sexp besides the value.
KariEncrAlgo == <<49, 46, 51, 46, 49, 51, 50, 46, 49, 46, 49, 49, 46, 49>>
KariWrapAlgo == <<50, 46, 49, 54, 46, 56, 52, 48, 46, 49, 46, 49, 48, 49, 46, 51, 46, 52, 46, 49, 46, 52, 53>>
KariEncrKey == <<222, 173, 190, 239>>

\* (tag (algo pairs...))
AlgoSexp(tag, algo, pairs) ==
  <<40>> \o Canon(tag) \o <<40>> \o Canon(algo) \o CanonPairs(pairs) \o <<41, 41>>

\* An input of kind "algosexp": a is the name of its algorithm.
AlgoSexps ==
  { KeyInput("algosexp", AlgoSexp(c[1], c[2], c[3]), 0, "absent", 0, FALSE, c[2], <<>>)
    : c \in { <<Str_sig_val, Str_rsa, << <<Str_s, RawKey>> >> >>,
              <<Str_sig_val, Str_1_2_840_113549_1_1_5, << <<Str_s, RawKey>> >> >>,
              <<Str_sig_val, Str_1_2_840_113549_1_1_7, << <<Str_s, RawKey>> >> >>,
              <<Str_sig_val, Str_sha_1, << <<Str_s, RawKey>> >> >>,
              <<Str_sig_val, Str_elg, << <<Str_r, DsaQ>>, <<Str_s, DsaG>> >> >>,
              <<Str_sig_val, Str_x, <<>> >>,
              <<Str_sig_val, Str_dsa, << <<Str_r, DsaQ>>, <<Str_s, DsaG>> >> >>,
              <<Str_sig_val, Str_ecdsa, << <<Str_r, DsaQ>>, <<Str_s, DsaG>> >> >>,
              <<Str_sig_val, Str_ecdsa,
                << <<Str_curve, Str_NIST_P_256>>, <<Str_r, DsaQ>>, <<Str_s, DsaG>> >> >>,
              <<Str_sig_val, Str_1_3_101_112, << <<Str_r, DsaQ>>, <<Str_s, DsaG>> >> >>,
              <<Str_sig_val, Str_1_2_840_10040_4_3,
                << <<Str_p, DsaP>>, <<Str_q, DsaQ>>, <<Str_g, DsaG>> >> >>,
              <<Str_sig_val, Str_2_16_840_1_101_3_4_3_2,
                << <<Str_p, DsaP>>, <<Str_q, DsaQ>>, <<Str_g, DsaG>> >> >>,
              <<Str_public_key, Str_rsa, << <<Str_n, <<0, 193, 5>> >>, <<Str_e, <<3>> >> >> >>,
              <<Str_public_key, Str_dsa,
                << <<Str_y, DsaY>>, <<Str_p, DsaP>>, <<Str_q, DsaQ>>, <<Str_g, DsaG>> >> >>,
              <<Str_public_key, Str_dsa, << <<Str_y, DsaY>> >> >>,
              <<Str_public_key, Str_ecc, << <<Str_curve, Str_NIST_P_256>>, <<Str_q, RawKey>> >> >>,
              <<Str_public_key, Str_ecc, << <<Str_curve, Str_Ed25518>>, <<Str_q, RawKey>> >> >>,
              <<Str_public_key, Str_elg, << <<Str_y, DsaY>> >> >>,
              <<Str_private_key, Str_rsa, <<>> >> } }
  \cup { KeyInput("algosexp", bytes, 0, "broken", 0, FALSE, <<>>, <<>>)
         : bytes \in { <<>>, <<40, 41>>, <<40>> \o Canon(Str_sig_val) \o <<41>> } }

ValInputs == PssInputs \cup SigVals \cup EncVals \cup AlgoSexps

\* _ksba_sigval_to_sexp on the signature value
_ksba_sigval_to_sexp ==
  /\ kpc = "start"
  /\ kin.kind = "sigval"
  /\ \E oom \in {"none", "psshash", "stringbuf"}, tail \in CtrlTails :
       ksexp' = [err |-> cryptval_to_sexp(0, kin.bytes, NullStr, NullStr, NullStr, oom, tail).err,
                 bytes |-> cryptval_to_sexp(0, kin.bytes, NullStr, NullStr, NullStr, oom, tail).sexp,
                 oom |-> oom]
  /\ kpc' = "sexp"
  /\ UNCHANGED <<kin, kder, certVars, algVars, cmsVars>>

\* _ksba_encval_to_sexp on the encrypted value
_ksba_encval_to_sexp ==
  /\ kpc = "start"
  /\ kin.kind = "encval"
  /\ \E oom \in {"none", "stringbuf"}, tail \in CtrlTails :
       ksexp' = [err |-> cryptval_to_sexp(1, kin.bytes, NullStr, NullStr, NullStr, oom, tail).err,
                 bytes |-> cryptval_to_sexp(1, kin.bytes, NullStr, NullStr, NullStr, oom, tail).sexp,
                 oom |-> oom]
  /\ kpc' = "sexp"
  /\ UNCHANGED <<kin, kder, certVars, algVars, cmsVars>>

\* _ksba_encval_kari_to_sexp on the ECDH value
_ksba_encval_kari_to_sexp ==
  /\ kpc = "start"
  /\ kin.kind = "kari"
  /\ \E oom \in {"none", "stringbuf"}, tail \in CtrlTails :
       ksexp' = [err |-> encval_kari_to_sexp(kin.bytes, KariEncrAlgo, KariWrapAlgo,
                                             KariEncrKey, oom, tail).err,
                 bytes |-> encval_kari_to_sexp(kin.bytes, KariEncrAlgo, KariWrapAlgo,
                                               KariEncrKey, oom, tail).sexp,
                 oom |-> oom]
  /\ kpc' = "sexp"
  /\ UNCHANGED <<kin, kder, certVars, algVars, cmsVars>>

\* _ksba_algoinfo_from_sexp on the expression that was given or that
\* _ksba_sigval_to_sexp returned
_ksba_algoinfo_from_sexp ==
  /\ \/ kpc = "start" /\ kin.kind = "algosexp"
     \/ kpc = "sexp" /\ kin.kind = "sigval" /\ ksexp.err = OK
  /\ \E oom \in {"none", "curve_oid", "writer"} :
       kder' = [err |-> algoinfo_from_sexp(IF kin.kind = "algosexp" THEN kin.bytes
                                           ELSE ksexp.bytes, oom).err,
                bytes |-> algoinfo_from_sexp(IF kin.kind = "algosexp" THEN kin.bytes
                                             ELSE ksexp.bytes, oom).der,
                oom |-> oom]
  /\ kpc' = "done"
  /\ UNCHANGED <<kin, ksexp, certVars, algVars, cmsVars>>

\* _ksba_keyinfo_get_pss_info on the parameters: kder takes the error,
\* the hash OID (NullStr for NULL) and the salt length.
ksba_keyinfo_get_pss_info ==
  /\ kpc = "start"
  /\ kin.kind = "pss"
  /\ \E oom \in {"none", "psshash"} :
       kder' = [err |-> _ksba_keyinfo_get_pss_info(kin.bytes, oom).err,
                bytes |-> IF _ksba_keyinfo_get_pss_info(kin.bytes, oom).psshash.null
                            THEN NullStr
                          ELSE _ksba_keyinfo_get_pss_info(kin.bytes, oom).psshash.str,
                oom |-> oom,
                saltlen |-> _ksba_keyinfo_get_pss_info(kin.bytes, oom).saltlen]
  /\ kpc' = "done"
  /\ UNCHANGED <<kin, ksexp, certVars, algVars, cmsVars>>

InitVal ==
  /\ FreshCert /\ IdleAlg /\ IdleCms
  /\ kin \in KeyInputs \cup ValInputs
  /\ ksexp = NoKeyResult
  /\ kder = NoKeyResult
  /\ kpc = "start"

NextVal ==
  \/ _ksba_keyinfo_to_sexp
  \/ _ksba_keyinfo_from_sexp
  \/ _ksba_sigval_to_sexp
  \/ _ksba_encval_to_sexp
  \/ _ksba_encval_kari_to_sexp
  \/ _ksba_algoinfo_from_sexp
  \/ ksba_keyinfo_get_pss_info

SpecVal == InitVal /\ [][NextVal]_vars

(***************************************************************************)
(*   Claim C11                                                             *)
(***************************************************************************)

\* The table the reader looks the OID of the input up in.
ReaderTable ==
  IF kin.kind = "der" THEN pk_algo_table
  ELSE IF kin.kind = "sigval" THEN sig_algo_table
  ELSE enc_algo_table

\* A reader (_ksba_keyinfo_to_sexp or cryptval_to_sexp) has returned
\* from an input whose AlgorithmIdentifier it could read, so that it
\* looked the OID up.
ReaderLookedUp ==
  /\ kpc \in {"sexp", "done"}
  /\ \/ kin.kind = "der" /\ (kin.entry # 0 \/ kin.bytes = KeyDer(OidUnknown, DerNull, 0, RawKey))
     \/ kin.kind \in {"sigval", "encval", "kari"} /\ kin.parm # "broken"

\* The name of the algorithm in an expression that begins with head,
\* NullStr if there is none.
NameBehind(s, head) ==
  IF /\ Len(s) > Len(head)
     /\ SubSeq(s, 1, Len(head)) = head
     /\ strtoul(s, Len(head) + 1).n # 0
     /\ At(s, strtoul(s, Len(head) + 1).i) = 58
    THEN StripOidPrefix(Peek(s, strtoul(s, Len(head) + 1).i, strtoul(s, Len(head) + 1).n))
  ELSE NullStr

\* The name a writer looked up: _ksba_keyinfo_from_sexp in a public-key
\* expression, _ksba_algoinfo_from_sexp in a sig-val or public-key one.
WriterName ==
  IF kin.kind = "sexp" THEN NameBehind(kin.bytes, Str_open_public_key)
  ELSE IF kin.kind = "algosexp" /\ NameBehind(kin.bytes, Str_open_sig_val) # NullStr
    THEN NameBehind(kin.bytes, Str_open_sig_val)
  ELSE IF kin.kind = "algosexp" THEN NameBehind(kin.bytes, Str_open_public_key)
  ELSE NullStr

\* A writer has returned from an expression in which it found a name.
WriterLookedUp == kpc = "done" /\ WriterName # NullStr

\* The entries of the tables a writer consults that bear the name.
NamedEntries ==
  { e \in {pk_algo_table[i] : i \in 1..Len(pk_algo_table)}
            \cup (IF kin.kind = "algosexp"
                    THEN {sig_algo_table[i] : i \in 1..Len(sig_algo_table)}
                  ELSE {})
      : WriterName \in {e.oidstring, e.algo_string} }

\* C11: in every table lookup - by DER OID in _ksba_keyinfo_to_sexp and
\* cryptval_to_sexp, by name or dotted OID in _ksba_keyinfo_from_sexp and
\* _ksba_algoinfo_from_sexp - an algorithm that is in the table but not
\* supported yields UNSUPPORTED_ALGORITHM and an algorithm that is in no
\* consulted table yields UNKNOWN_ALGORITHM.
C11_LookupErrors ==
  /\ ReaderLookedUp /\ kin.entry # 0 /\ ReaderTable[kin.entry].supported = 0
       => ksexp.err = "GPG_ERR_UNSUPPORTED_ALGORITHM"
  /\ ReaderLookedUp /\ kin.entry = 0 => ksexp.err = "GPG_ERR_UNKNOWN_ALGORITHM"
  /\ WriterLookedUp /\ NamedEntries # {} /\ (\A e \in NamedEntries : e.supported = 0)
       => kder.err = "GPG_ERR_UNSUPPORTED_ALGORITHM"
  /\ WriterLookedUp /\ NamedEntries = {} => kder.err = "GPG_ERR_UNKNOWN_ALGORITHM"

\* The readers' half of C11, which holds.
C11_ReaderLookupErrors ==
  /\ ReaderLookedUp /\ kin.entry # 0 /\ ReaderTable[kin.entry].supported = 0
       => ksexp.err = "GPG_ERR_UNSUPPORTED_ALGORITHM"
  /\ ReaderLookedUp /\ kin.entry = 0 => ksexp.err = "GPG_ERR_UNKNOWN_ALGORITHM"

\* What the writers do instead: a name that no supported entry bears,
\* whether in a table or not, yields UNSUPPORTED_ALGORITHM.
C11_WriterLookupErrors ==
  WriterLookedUp /\ (\A e \in NamedEntries : e.supported = 0)
    => kder.err = "GPG_ERR_UNSUPPORTED_ALGORITHM"

\* A reader has refused an OID of no table and one of an unsupported
\* entry; a writer has refused a name of no table.
C11_ReaderWitness ==
  ReaderLookedUp /\ kin.kind = "sigval" /\ kin.entry = 0
    /\ ksexp.err = "GPG_ERR_UNKNOWN_ALGORITHM"

C11_WriterWitness ==
  WriterLookedUp /\ kin.kind = "algosexp" /\ NamedEntries = {}
    /\ kder.err = "GPG_ERR_UNSUPPORTED_ALGORITHM"

(***************************************************************************)
(*   Claim C12                                                             *)
(***************************************************************************)

RECURSIVE StripZeros(_)
\* The octets of a number without its leading zero octets.
StripZeros(octets) ==
  IF octets # <<>> /\ Head(octets) = 0 THEN StripZeros(Tail(octets)) ELSE octets

\* _ksba_keyinfo_get_pss_info has returned from well-formed parameters,
\* no allocation having failed.
PssInfoReturned == kin.kind = "pss" /\ kin.valid /\ kpc = "done" /\ kder.oom = "none"

\* The hash OID of the parameters in dotted form.
PssHashDotted == IF kin.b = OidSha256 THEN Str_sha256 ELSE Str_sha512

\* C12: _ksba_keyinfo_get_pss_info on well-formed RSA-PSS parameters
\* whose [2] saltLength element is absent succeeds and reports salt
\* length exactly 20; when [2] INTEGER n is present it reports n together
\* with the outer hash OID in dotted form.
C12_SaltLengthReported ==
  PssInfoReturned =>
    /\ kder.err = OK
    /\ kder.bytes = PssHashDotted
    /\ kin.parm \in {"absent", "trailer"} => kder.saltlen = UInt(20)
    /\ kin.parm = "present" => StripZeros(kder.saltlen) = StripZeros(kin.a)

\* The part of C12 that holds: an absent [2] gives 20, and an INTEGER
\* of at most UIntOctets octets gives its value, with the hash OID.
C12_SaltLengthThatFits ==
  PssInfoReturned /\ Len(kin.a) <= UIntOctets =>
    /\ kder.err = OK
    /\ kder.bytes = PssHashDotted
    /\ kin.parm \in {"absent", "trailer"} => kder.saltlen = UInt(20)
    /\ kin.parm = "present" => StripZeros(kder.saltlen) = StripZeros(kin.a)

\* The salt length 64 with SHA-512 has been reported.
C12_Witness ==
  PssInfoReturned /\ kin.parm = "present" /\ kin.a = <<64>> /\ kin.b = OidSha512
    /\ kder.err = OK /\ kder.saltlen = UInt(64) /\ kder.bytes = Str_sha512

\* The default has been reported for parameters that end behind [1].
C12_AbsentWitness ==
  PssInfoReturned /\ kin.parm = "absent" /\ kder.err = OK /\ kder.saltlen = UInt(20)

(***************************************************************************)
(*   SignedData and EnvelopedData                                          *)
(***************************************************************************)

TYPE_SET == 17
TmpBufSize == 500      \* DIM(tmpbuf)

\* The test of the version's octet, with version 5 let through.
IsCmsVersion_wrong(c) == c \in {0, 1, 2, 3, 4, 5}

\* The test of the version's octet c in parse_cms_version.
IsCmsVersion(c) == c = 0 \/ c = 1 \/ c = 2 \/ c = 3 \/ c = 4

\* read_byte: the byte at offset p, -1 if the reader has none.
read_byte(b, p) == IF p >= Len(b) THEN -1 ELSE b[p + 1]

\* parse_cms_version with the reader at offset p: the error, whether
\* *r_version was written and with what, *r_len, *r_ndef and the
\* reader's position.
parse_cms_version(b, p) ==
  The({ The({ The({
    IF s.err # OK THEN [err |-> s.err, written |-> FALSE, version |-> 0, len |-> 0,
                        ndef |-> FALSE, p |-> p]
    ELSE IF ~(s.class = CLASS_UNIVERSAL /\ s.tag = TYPE_SEQUENCE /\ s.is_constructed)
      THEN [err |-> "KSBA_Invalid_CMS_Object", written |-> FALSE, version |-> 0,
            len |-> 0, ndef |-> FALSE, p |-> p + s.nhdr]
    ELSE IF ~s.ndef /\ s.length < 3
      THEN [err |-> "KSBA_Object_Too_Short", written |-> FALSE, version |-> 0,
            len |-> 0, ndef |-> FALSE, p |-> p + s.nhdr]
    ELSE IF i.err # OK
      THEN [err |-> i.err, written |-> FALSE, version |-> 0, len |-> 0,
            ndef |-> FALSE, p |-> p + s.nhdr]
    ELSE IF ~(i.class = CLASS_UNIVERSAL /\ i.tag = TYPE_INTEGER
              /\ ~i.is_constructed /\ i.length # 0)
      THEN [err |-> "KSBA_Invalid_CMS_Object", written |-> FALSE, version |-> 0,
            len |-> 0, ndef |-> FALSE, p |-> p + s.nhdr + i.nhdr]
    ELSE IF ~s.ndef /\ (s.length < i.nhdr \/ s.length - i.nhdr < i.length)
      THEN [err |-> "KSBA_BER_Error", written |-> FALSE, version |-> 0,
            len |-> 0, ndef |-> FALSE, p |-> p + s.nhdr + i.nhdr]
    ELSE IF i.length # 1
      THEN [err |-> "KSBA_Unsupported_CMS_Version", written |-> FALSE, version |-> 0,
            len |-> 0, ndef |-> FALSE, p |-> p + s.nhdr + i.nhdr]
    ELSE IF c = -1
      THEN [err |-> "KSBA_Read_Error", written |-> FALSE, version |-> 0,
            len |-> 0, ndef |-> FALSE, p |-> p + s.nhdr + i.nhdr]
    ELSE IF ~IsCmsVersion(c)
      THEN [err |-> "KSBA_Unsupported_CMS_Version", written |-> FALSE, version |-> 0,
            len |-> 0, ndef |-> FALSE, p |-> p + s.nhdr + i.nhdr + 1]
    ELSE [err |-> OK, written |-> TRUE, version |-> c,
          len |-> IF s.ndef THEN s.length ELSE s.length - i.nhdr - i.length,
          ndef |-> s.ndef, p |-> p + s.nhdr + i.nhdr + 1]
    : c \in {read_byte(b, p + s.nhdr + i.nhdr)} })
    : i \in {_ksba_ber_read_tl(b, p + s.nhdr)} })
    : s \in {_ksba_ber_read_tl(b, p)} })

\* What a parse operation hands back: the error and the handle.
CmsResult(err, c) == [err |-> err, cms |-> c]

RECURSIVE DigestAlgos(_, _, _)
\* The loop over the SET OF AlgorithmIdentifier read into buffer: each
\* OID is put in front of the list.  oom = "ol" lets the allocation of
\* the list item fail, "algoid" that of the OID string.
DigestAlgos(buffer, oom, list) ==
  IF Len(buffer) = 0 THEN [err |-> OK, list |-> list]
  ELSE The({
    IF a.err # OK THEN [err |-> a.err, list |-> list]
    ELSE IF oom = "ol" THEN [err |-> "KSBA_Out_Of_Core", list |-> list]
    ELSE DigestAlgos(Slice(buffer, a.nread, Len(buffer) - a.nread), oom,
                     <<a.oid.str>> \o list)
    : a \in {parse_algorithm_identifier(buffer, IF oom = "algoid" THEN "oid" ELSE "none")}
    })

\* _ksba_cms_parse_signed_data_part_1 from the encapsulatedContentInfo
\* on: c is the handle with the digest algorithms, the reader at c.pos,
\* len what is left of the SignedData.
signed_data_encap(c, b, oom, ndef, len) ==
  The({
    IF r.err # OK THEN CmsResult(r.err, [c EXCEPT !.pos = r.pos])
    ELSE IF ~ndef /\ (len < r.pos - c.pos
                      \/ (~r.ndef /\ len - (r.pos - c.pos) < r.len))
      THEN CmsResult("KSBA_BER_Error",
                     [c EXCEPT !.pos = r.pos, !.inner_cont_oid = r.oid,
                               !.detached_data = ~r.has_content])
    ELSE CmsResult(OK, [c EXCEPT !.pos = r.pos, !.inner_cont_oid = r.oid,
                                 !.detached_data = ~r.has_content])
    : r \in {parse_content_info(b, c.pos, oom)} })

\* _ksba_cms_parse_signed_data_part_1 behind parse_cms_version, which
\* gave v and has written the version into the handle c.
signed_data_algos(c, b, oom, v) ==
  The({ The({ The({
    IF ti.err # OK THEN CmsResult(ti.err, c)
    ELSE IF ~(ti.class = CLASS_UNIVERSAL /\ ti.tag = TYPE_SET /\ ti.is_constructed)
      THEN CmsResult("KSBA_Invalid_CMS_Object", [c EXCEPT !.pos = v.p + ti.nhdr])
    ELSE IF ~v.ndef /\ (v.len < ti.nhdr \/ (~ti.ndef /\ v.len - ti.nhdr < ti.length))
      THEN CmsResult("KSBA_BER_Error", [c EXCEPT !.pos = v.p + ti.nhdr])
    ELSE IF ti.ndef
      THEN CmsResult("KSBA_Unsupported_Encoding", [c EXCEPT !.pos = v.p + ti.nhdr])
    ELSE IF oom = "buffer"
      THEN CmsResult("KSBA_Out_Of_Core", [c EXCEPT !.pos = v.p + ti.nhdr])
    ELSE IF rb.err # OK
      THEN CmsResult("KSBA_Read_Error", [c EXCEPT !.pos = Len(b)])
    ELSE IF d.err # OK
      THEN CmsResult(d.err, [c EXCEPT !.pos = v.p + ti.nhdr + ti.length,
                                      !.digest_algos = d.list])
    ELSE signed_data_encap([c EXCEPT !.pos = v.p + ti.nhdr + ti.length,
                                     !.digest_algos = d.list],
                           b, oom, v.ndef, v.len - ti.nhdr - ti.length)
    : d \in {DigestAlgos(rb.bytes, oom, c.digest_algos)} })
    : rb \in {read_buffer(b, v.p + ti.nhdr, IF ti.err = OK THEN ti.length ELSE 0)} })
    : ti \in {_ksba_ber_read_tl(b, v.p)} })

\* _ksba_cms_parse_signed_data_part_1 on the handle c, whose reader
\* stands at c.pos of the bytes b.
signed_data_part_1(c, b, oom) ==
  The({
    IF v.err # OK THEN CmsResult(v.err, [c EXCEPT !.pos = v.p])
    ELSE signed_data_algos([c EXCEPT !.pos = v.p, !.cms_version = v.version], b, oom, v)
    : v \in {parse_cms_version(b, c.pos)} })

\* The generic decoder run on the element that begins at offset p, as
\* ksba_cert_read_der runs it on "TMTTv2.Certificate": it takes the whole
\* element, and takes it for a certificate if it is a SEQUENCE of
\* definite length that lies in the input and begins with a SEQUENCE.
decode_certificate(b, p) ==
  The({
    IF ti.err # OK \/ ti.ndef \/ ti.length = 0 \/ p + ti.nhdr + ti.length > Len(b)
      THEN [err |-> "KSBA_BER_Error", image |-> <<>>, p |-> p]
    ELSE IF At(b, p + ti.nhdr + 1) # 48
      THEN [err |-> "KSBA_BER_Error", image |-> <<>>, p |-> p + ti.nhdr]
    ELSE [err |-> OK, image |-> Slice(b, p, ti.nhdr + ti.length),
          p |-> p + ti.nhdr + ti.length]
    : ti \in {_ksba_ber_read_tl(b, p)} })

\* create_and_run_decoder behind the header of a SET whose value begins
\* at offset p: the decoder takes the value.  oom = "decoder" lets
\* _ksba_ber_decoder_new fail.
create_and_run_decoder(b, p, oom, ti) ==
  IF oom = "decoder" THEN [err |-> "KSBA_Out_Of_Core", image |-> <<>>, p |-> p]
  ELSE IF ti.ndef \/ p + ti.length > Len(b)
    THEN [err |-> "KSBA_BER_Error", image |-> <<>>, p |-> p]
  ELSE [err |-> OK, image |-> Slice(b, p, ti.length), p |-> p + ti.length]

RECURSIVE Certificates(_, _, _, _)
\* The loop over the certificates from offset p on: the error, the list
\* with each certificate put in front, the header ti that ended the
\* loop, the offset at of that header and the reader's position p.
\* oom = "cert" lets ksba_cert_new fail, "cl" the allocation of the
\* list item.
Certificates(b, p, oom, list) ==
  The({ The({
    IF ti.err # OK THEN [err |-> ti.err, list |-> list, ti |-> ti, at |-> p, p |-> p]
    ELSE IF ~(ti.class = CLASS_UNIVERSAL /\ ti.tag = TYPE_SEQUENCE /\ ti.is_constructed)
      THEN [err |-> OK, list |-> list, ti |-> ti, at |-> p, p |-> p + ti.nhdr]
    ELSE IF oom = "cert"
      THEN [err |-> "KSBA_Out_Of_Core", list |-> list, ti |-> ti, at |-> p, p |-> p]
    ELSE IF crt.err # OK
      THEN [err |-> crt.err, list |-> list, ti |-> ti, at |-> p, p |-> crt.p]
    ELSE IF oom = "cl"
      THEN [err |-> "KSBA_Out_Of_Core", list |-> list, ti |-> ti, at |-> p, p |-> crt.p]
    ELSE Certificates(b, crt.p, oom, <<crt.image>> \o list)
    : crt \in {decode_certificate(b, p)} })
    : ti \in {_ksba_ber_read_tl(b, p)} })

\* What _ksba_cms_parse_signed_data_part_2 hands back: the error, the
\* handle, and the offset of the element it tested for the SET OF
\* signerInfo (-1 if it did not get that far).
TailResult(err, c, tested) == [err |-> err, cms |-> c, tested |-> tested]

\* "expect a SET OF signerInfo": ti is the header last read, at its
\* offset, p the reader's position.
signed_data_signers(c, b, oom, ti, at, p) ==
  IF ~(ti.class = CLASS_UNIVERSAL /\ ti.tag = TYPE_SET /\ ti.is_constructed)
    THEN TailResult("KSBA_Invalid_CMS_Object", [c EXCEPT !.pos = p], at)
  ELSE The({
    IF d.err # OK THEN TailResult(d.err, [c EXCEPT !.pos = d.p], at)
    ELSE TailResult(OK, [c EXCEPT !.pos = d.p, !.signer_info = d.image], at)
    : d \in {create_and_run_decoder(b, p, oom, ti)} })

\* The CRLs: behind the header of a [1] element the next header is read.
signed_data_crls(c, b, oom, ti, at, p) ==
  IF ti.class = CLASS_CONTEXT /\ ti.tag = 1 /\ ti.is_constructed
    THEN The({
      IF n.err # OK THEN TailResult(n.err, [c EXCEPT !.pos = p], -1)
      ELSE signed_data_signers(c, b, oom, n, p, p + n.nhdr)
      : n \in {_ksba_ber_read_tl(b, p)} })
  ELSE signed_data_signers(c, b, oom, ti, at, p)

\* _ksba_cms_parse_signed_data_part_2 on the handle c, whose reader
\* stands at c.pos of the bytes b.
signed_data_part_2(c, b, oom) ==
  The({
    IF ti.err # OK THEN TailResult(ti.err, c, -1)
    ELSE IF ti.class = CLASS_CONTEXT /\ ti.tag = 0 /\ ti.is_constructed
      THEN IF ti.ndef
             THEN TailResult("KSBA_Unsupported_Encoding",
                             [c EXCEPT !.pos = c.pos + ti.nhdr], -1)
           ELSE The({
             IF l.err # OK
               THEN TailResult(l.err, [c EXCEPT !.pos = l.p, !.cert_list = l.list], -1)
             ELSE signed_data_crls([c EXCEPT !.cert_list = l.list], b, oom, l.ti, l.at, l.p)
             : l \in {Certificates(b, c.pos + ti.nhdr, oom, c.cert_list)} })
    ELSE signed_data_crls(c, b, oom, ti, c.pos, c.pos + ti.nhdr)
    : ti \in {_ksba_ber_read_tl(b, c.pos)} })

\* What parse_encrypted_content_info hands back: the error, the seven
\* results and the reader's position.
EncrResult(err, len, ndef, cont_oid, algo_oid, algo_parm, has, p) ==
  [err |-> err, len |-> len, ndef |-> ndef, cont_oid |-> cont_oid,
   algo_oid |-> algo_oid, algo_parm |-> algo_parm, has_content |-> has, pos |-> p]

EncrFail(e, p) == EncrResult(e, 0, FALSE, NoOid, NoOid, NoParm, FALSE, p)

\* parse_encrypted_content_info from "the optional encryptedDataInfo"
\* on, without the ksba_reader_unread of a header that is no [0].
encrypted_content_tag0_wrong(b, q, content_ndef, content_len, cont_oid, a) ==
  IF ~(content_ndef \/ content_len # 0)
    THEN EncrResult(OK, content_len, content_ndef, cont_oid, a.oid, a.parm, FALSE, q)
  ELSE The({
    IF ti.err # OK THEN EncrFail(ti.err, q)
    ELSE IF ti.class = CLASS_CONTEXT /\ ti.tag = 0
      THEN IF ~content_ndef /\ (content_len < ti.nhdr
                                \/ (~ti.ndef /\ content_len - ti.nhdr < ti.length))
             THEN EncrFail("KSBA_BER_Error", q + ti.nhdr)
           ELSE EncrResult(OK, IF content_ndef THEN content_len
                               ELSE content_len - ti.nhdr,
                           content_ndef, cont_oid, a.oid, a.parm, TRUE, q + ti.nhdr)
    ELSE EncrResult(OK, content_len, content_ndef, cont_oid, a.oid, a.parm, FALSE,
                    q + ti.nhdr)
    : ti \in {_ksba_ber_read_tl(b, q)} })

\* parse_encrypted_content_info from "the optional encryptedDataInfo"
\* on: the reader stands at q, a is the AlgorithmIdentifier.
encrypted_content_tag0(b, q, content_ndef, content_len, cont_oid, a) ==
  IF ~(content_ndef \/ content_len # 0)
    THEN EncrResult(OK, content_len, content_ndef, cont_oid, a.oid, a.parm, FALSE, q)
  ELSE The({
    IF ti.err # OK THEN EncrFail(ti.err, q)
    ELSE IF ti.class = CLASS_CONTEXT /\ ti.tag = 0
      THEN IF ~content_ndef /\ (content_len < ti.nhdr
                                \/ (~ti.ndef /\ content_len - ti.nhdr < ti.length))
             THEN EncrFail("KSBA_BER_Error", q + ti.nhdr)
           ELSE EncrResult(OK, IF content_ndef THEN content_len
                               ELSE content_len - ti.nhdr,
                           content_ndef, cont_oid, a.oid, a.parm, TRUE, q + ti.nhdr)
    ELSE EncrResult(OK, content_len, content_ndef, cont_oid, a.oid, a.parm, FALSE, q)
    : ti \in {_ksba_ber_read_tl(b, q)} })

\* parse_encrypted_content_info from "read the algorithmIdentifier" on.
\* oom = "algoid" lets the allocation of the algorithm's OID string
\* fail, "parm" that of the copy of the parameter.
encrypted_content_algo(b, p, oom, content_ndef, content_len, cont_oid) ==
  The({ The({ The({
    IF ti.err # OK THEN EncrFail(ti.err, p)
    ELSE IF ~(ti.class = CLASS_UNIVERSAL /\ ti.tag = TYPE_SEQUENCE /\ ti.is_constructed)
      THEN EncrFail("KSBA_Invalid_CMS_Object", p + ti.nhdr)
    ELSE IF ~content_ndef /\ (content_len < ti.nhdr
                              \/ content_len - ti.nhdr < ti.length)
      THEN EncrFail("KSBA_BER_Error", p + ti.nhdr)
    ELSE IF ti.nhdr + ti.length >= TmpBufSize
      THEN EncrFail("KSBA_Object_Too_Large", p + ti.nhdr)
    ELSE IF rb.err # OK THEN EncrFail(rb.err, Len(b))
    ELSE IF a.err # OK THEN EncrFail(a.err, p + ti.nhdr + ti.length)
    ELSE IF a.nread < ti.nhdr + ti.length
      THEN EncrFail("KSBA_Object_Too_Short", p + ti.nhdr + ti.length)
    ELSE encrypted_content_tag0(b, p + ti.nhdr + ti.length, content_ndef,
                                IF content_ndef THEN content_len
                                ELSE content_len - ti.nhdr - ti.length,
                                cont_oid, a)
    : a \in {parse_algorithm_identifier2(
               Slice(b, p, ti.nhdr + Len(rb.bytes)), TRUE,
               IF oom = "algoid" THEN "oid" ELSE IF oom = "parm" THEN "parm" ELSE "none")} })
    : rb \in {read_buffer(b, p + ti.nhdr, IF ti.err = OK THEN ti.length ELSE 0)} })
    : ti \in {_ksba_ber_read_tl(b, p)} })

\* parse_encrypted_content_info from "read the OID" on; seqlen and
\* content_ndef are those of the SEQUENCE.  oom = "oid" lets
\* ksba_oid_to_str fail.
encrypted_content_oid(b, p, oom, content_ndef, seqlen) ==
  The({ The({
    IF ti.err # OK THEN EncrFail(ti.err, p)
    ELSE IF ~(ti.class = CLASS_UNIVERSAL /\ ti.tag = TYPE_OBJECT_ID
              /\ ~ti.is_constructed /\ ti.length # 0)
      THEN EncrFail("KSBA_Invalid_CMS_Object", p + ti.nhdr)
    ELSE IF ~content_ndef /\ (seqlen < ti.nhdr \/ seqlen - ti.nhdr < ti.length)
      THEN EncrFail("KSBA_BER_Error", p + ti.nhdr)
    ELSE IF ti.length >= TmpBufSize
      THEN EncrFail("KSBA_Object_Too_Large", p + ti.nhdr)
    ELSE IF rb.err # OK THEN EncrFail(rb.err, Len(b))
    ELSE IF oom = "oid" THEN EncrFail("KSBA_Out_Of_Core", p + ti.nhdr + ti.length)
    ELSE encrypted_content_algo(b, p + ti.nhdr + ti.length, oom, content_ndef,
                                IF content_ndef THEN seqlen
                                ELSE seqlen - ti.nhdr - ti.length,
                                [null |-> FALSE, str |-> ksba_oid_to_str(rb.bytes)])
    : rb \in {read_buffer(b, p + ti.nhdr, IF ti.err = OK THEN ti.length ELSE 0)} })
    : ti \in {_ksba_ber_read_tl(b, p)} })

\* parse_encrypted_content_info with the reader at offset p of b.
parse_encrypted_content_info(b, p, oom) ==
  The({
    IF ti.err # OK THEN EncrFail(ti.err, p)
    ELSE IF ~(ti.class = CLASS_UNIVERSAL /\ ti.tag = TYPE_SEQUENCE /\ ti.is_constructed)
      THEN EncrFail("KSBA_Invalid_CMS_Object", p + ti.nhdr)
    ELSE IF ~ti.ndef /\ ti.length < 3
      THEN EncrFail("KSBA_Object_Too_Short", p + ti.nhdr)
    ELSE encrypted_content_oid(b, p + ti.nhdr, oom, ti.ndef, ti.length)
    : ti \in {_ksba_ber_read_tl(b, p)} })

\* _ksba_cms_parse_enveloped_data_part_1 from the encryptedContentInfo
\* on: the reader stands at c.pos, len is env_data_len.
enveloped_data_encr(c, b, oom, ndef, len) ==
  The({
    IF r.err # OK THEN CmsResult(r.err, [c EXCEPT !.pos = r.pos])
    ELSE The({
      IF ~ndef /\ (len < r.pos - c.pos
                   \/ (~r.ndef /\ len - (r.pos - c.pos) < r.len))
        THEN CmsResult("KSBA_BER_Error", h)
      ELSE CmsResult(OK, h)
      : h \in {[c EXCEPT !.pos = r.pos, !.inner_cont_len = r.len,
                         !.inner_cont_ndef = r.ndef, !.inner_cont_oid = r.cont_oid,
                         !.detached_data = ~r.has_content,
                         !.encr_algo_oid = r.algo_oid, !.encr_iv = r.algo_parm]} })
    : r \in {parse_encrypted_content_info(b, c.pos, oom)} })

\* _ksba_cms_parse_enveloped_data_part_1 behind parse_cms_version, which
\* gave v and has written the version into the handle c.
enveloped_data_recipients(c, b, oom, v) ==
  The({ The({
    IF ti.err # OK THEN CmsResult(ti.err, c)
    ELSE IF ti.class = CLASS_CONTEXT /\ ti.tag = 0 /\ ti.is_constructed
      THEN CmsResult("KSBA_Unsupported_CMS_Object", [c EXCEPT !.pos = v.p + ti.nhdr])
    ELSE IF ~(ti.class = CLASS_UNIVERSAL /\ ti.tag = TYPE_SET /\ ti.is_constructed)
      THEN CmsResult("KSBA_Invalid_CMS_Object", [c EXCEPT !.pos = v.p + ti.nhdr])
    ELSE IF d.err # OK THEN CmsResult(d.err, [c EXCEPT !.pos = d.p])
    ELSE enveloped_data_encr([c EXCEPT !.pos = d.p, !.recp_info = d.image],
                             b, oom, v.ndef, v.len)
    : d \in {create_and_run_decoder(b, v.p + ti.nhdr, oom, ti)} })
    : ti \in {_ksba_ber_read_tl(b, v.p)} })

\* _ksba_cms_parse_enveloped_data_part_1 on the handle c, whose reader
\* stands at c.pos of the bytes b.
enveloped_data_part_1(c, b, oom) ==
  The({
    IF v.err # OK THEN CmsResult(v.err, [c EXCEPT !.pos = v.p])
    ELSE enveloped_data_recipients([c EXCEPT !.pos = v.p, !.cms_version = v.version],
                                   b, oom, v)
    : v \in {parse_cms_version(b, c.pos)} })

\* _ksba_cms_parse_enveloped_data_part_2: nothing yet.
enveloped_data_part_2(c) == CmsResult(OK, c)

(***************************************************************************)
(* The inputs of the SignedData and EnvelopedData parsers: a ContentInfo   *)
(* of definite length around a body put together from its children, each  *)
(* of them sound or broken in one way.  With each input go the offsets a   *)
(* caller and the properties need: where the body begins, the length L    *)
(* its SEQUENCE declares, where the inner content ends, where the CRLs     *)
(* begin (-1 if there are none) and where the element behind them begins. *)
(***************************************************************************)
SlackLen == 2      \* bytes a SEQUENCE declares beyond its children

OidData == <<42, 134, 72, 134, 247, 13, 1, 7, 1>>            \* 1.2.840.113549.1.7.1
OidSignedData == <<42, 134, 72, 134, 247, 13, 1, 7, 2>>      \* 1.2.840.113549.1.7.2
OidEnvelopedData == <<42, 134, 72, 134, 247, 13, 1, 7, 3>>   \* 1.2.840.113549.1.7.3
OidSha1 == <<43, 14, 3, 2, 26>>                             \* 1.3.14.3.2.26
OidAes128Cbc == <<96, 134, 72, 1, 101, 3, 4, 1, 2>>         \* 2.16.840.1.101.3.4.1.2

Zeros(n) == [i \in 1..n |-> 0]

\* The ContentInfo of type oid around the body.
Wrap(oid, body) == DerTLV(48, DerTLV(6, oid) \o DerTLV(160, body))

\* The offset of the body's first child in Wrap(oid, body), oid of nine
\* octets and all lengths in one octet.
BodyAt == Len(Wrap(OidSignedData, <<>>)) + 2

Versions == { <<2, 1, v>> : v \in {0, 1, 3, 4, 5, 255} } \cup {<<2, 2, 0, 1>>}

DigestSets ==
  { DerTLV(49, DerTLV(48, DerTLV(6, OidSha256) \o <<5, 0>>)
               \o DerTLV(48, DerTLV(6, OidSha1))),
    DerTLV(49, DerTLV(48, DerTLV(6, OidSha256))),
    DerTLV(49, DerTLV(48, DerTLV(6, OidSha256)) \o DerTLV(48, <<4, 1, 0>>)),
    DerTLV(49, <<>>),
    <<49, 128>> \o DerTLV(48, DerTLV(6, OidSha1)) \o <<0, 0>> }

Encaps ==
  { DerTLV(48, DerTLV(6, OidData) \o DerTLV(160, DerTLV(4, <<104, 105>>))),
    DerTLV(48, DerTLV(6, OidData)),
    DerTLV(48, DerTLV(4, OidData)) }

Cert1 == DerTLV(48, DerTLV(48, <<2, 1, 1>>))
Cert2 == DerTLV(48, DerTLV(48, <<2, 1, 2>>))
NoCert == DerTLV(48, DerTLV(4, <<0>>))

CertSets ==
  { <<>>, DerTLV(160, Cert1), DerTLV(160, Cert1 \o Cert2),
    DerTLV(160, Cert1 \o NoCert), <<160, 128>> \o Cert1 \o <<0, 0>>,
    DerTLV(160, <<>>), DerTLV(160, Cert1) \o Cert2 }

CrlSets ==
  { <<>>, DerTLV(161, DerTLV(48, <<5, 0>>)), DerTLV(161, DerTLV(49, DerTLV(48, <<5, 0>>))),
    DerTLV(161, <<>>) }

SignerSets == { DerTLV(49, DerTLV(48, <<2, 1, 1>>)), <<>>, DerTLV(48, <<2, 1, 1>>) }

LengthKinds == {"exact", "short", "long", "tight"}

\* The length the body's SEQUENCE declares: that of its children, that
\* of the children up to the inner content, more than there is, or an
\* octet less than the children up to the inner content.
DeclaredLength(head, tail, lkind) ==
  IF lkind = "short" THEN Len(head)
  ELSE IF lkind = "tight" THEN Len(head) - 1
  ELSE IF lkind = "long" THEN Len(head) + Len(tail) + SlackLen
  ELSE Len(head) + Len(tail)

BodyInput(kind, oid, head, tail, crl_at, crl_next, lkind) ==
  [kind |-> kind,
   der |-> Wrap(oid, <<48, DeclaredLength(head, tail, lkind)>> \o head \o tail
                     \o (IF lkind = "long" THEN Zeros(SlackLen) ELSE <<>>)),
   L |-> DeclaredLength(head, tail, lkind), lkind |-> lkind,
   content_end |-> BodyAt + Len(head), crl_at |-> crl_at, crl_next |-> crl_next]

\* A SignedData of the children given.
SignedInput(ver, algs, encap, certs, crls, signers, lkind) ==
  BodyInput("signed", OidSignedData, ver \o algs \o encap, certs \o crls \o signers,
            IF crls = <<>> THEN -1
            ELSE BodyAt + Len(ver) + Len(algs) + Len(encap) + Len(certs),
            BodyAt + Len(ver) + Len(algs) + Len(encap) + Len(certs) + Len(crls),
            lkind)

\* A body given as it stands, with the length its first two octets show.
RawInput(kind, oid, body) ==
  [kind |-> kind, der |-> Wrap(oid, body), L |-> At(body, 2), lkind |-> "raw",
   content_end |-> BodyAt - 2 + Len(body), crl_at |-> -1,
   crl_next |-> BodyAt - 2 + Len(body)]

\* Bodies that end inside the digestAlgorithms SET and inside the content
\* type of the encryptedContentInfo: the reader fails while their value
\* is read.
CutInDigestAlgorithms == <<48, 128, 2, 1, 1, 49, 30, 48, 3>>
CutInEncryptedContentInfo ==
  <<48, 128, 2, 1, 0>> \o DerTLV(49, DerTLV(48, <<2, 1, 0>>)) \o <<48, 128, 6, 9, 42>>

RawBodies ==
  { <<48, 3, 2, 2, 0, 5>>, <<48, 4, 2, 3, 0, 0, 1>>, <<48, 2, 2, 1, 1>>, <<48, 3, 2, 1>>,
    <<48, 3, 4, 1, 1>>, <<49, 3, 2, 1, 1>>, <<48, 128, 2, 1, 1>>, <<48, 128, 2, 1, 7>>,
    <<48, 4, 2, 129, 1, 1>>, <<48, 3, 2, 129, 1, 1>>,
    CutInDigestAlgorithms, CutInEncryptedContentInfo }

Sha256AndSha1 ==
  DerTLV(49, DerTLV(48, DerTLV(6, OidSha256) \o <<5, 0>>) \o DerTLV(48, DerTLV(6, OidSha1)))
Attached == DerTLV(48, DerTLV(6, OidData) \o DerTLV(160, DerTLV(4, <<104, 105>>)))
Detached == DerTLV(48, DerTLV(6, OidData))
OneSigner == DerTLV(49, DerTLV(48, <<2, 1, 1>>))
OneCrl == DerTLV(161, DerTLV(48, <<5, 0>>))

SignedInputs ==
       { SignedInput(ver, Sha256AndSha1, Attached, <<>>, <<>>, OneSigner, "exact")
           : ver \in Versions }
  \cup { SignedInput(<<2, 1, 3>>, algs, enc, <<>>, <<>>, OneSigner, "exact")
           : algs \in DigestSets, enc \in Encaps }
  \cup { SignedInput(<<2, 1, 1>>, Sha256AndSha1, Attached, certs, crls, signers, "exact")
           : certs \in CertSets, crls \in CrlSets, signers \in SignerSets }
  \cup { SignedInput(<<2, 1, 1>>, Sha256AndSha1, enc, certs, crls, OneSigner, lkind)
           : enc \in {Attached, Detached}, certs \in {<<>>, DerTLV(160, Cert1)},
             crls \in {<<>>, OneCrl}, lkind \in LengthKinds }
  \cup { RawInput("signed", OidSignedData, body) : body \in RawBodies }

Recipients == { DerTLV(49, DerTLV(48, <<2, 1, 0>>)), DerTLV(48, <<2, 1, 0>>),
                <<49, 128>> \o DerTLV(48, <<2, 1, 0>>) \o <<0, 0>>,
                <<160, 0>> \o DerTLV(49, DerTLV(48, <<2, 1, 0>>)) }

EncrAlgos == { DerTLV(48, DerTLV(6, OidAes128Cbc) \o DerTLV(4, <<7, 7, 7, 7>>)),
               DerTLV(48, DerTLV(6, OidAes128Cbc)),
               DerTLV(48, DerTLV(4, <<1>>)) }

\* The encryptedContentInfo with its content cont, of definite length
\* or not.
EncrContentInfo(algo, cont, ndef) ==
  IF ndef THEN <<48, 128>> \o DerTLV(6, OidData) \o algo \o cont \o <<0, 0>>
  ELSE DerTLV(48, DerTLV(6, OidData) \o algo \o cont)

\* What stands behind the AlgorithmIdentifier: nothing, the content as a
\* primitive or a constructed [0], an OCTET STRING whose header is of
\* three octets, or a [1].
EncrContents == { <<>>, DerTLV(128, <<1, 2, 3>>), DerTLV(160, DerTLV(4, <<1, 2>>)),
                  <<4, 129, 1, 9>>, DerTLV(129, <<9>>) }

EnvelopedInputs ==
     { BodyInput("enveloped", OidEnvelopedData,
                 ver \o recp \o EncrContentInfo(algo, cont, ndef), <<>>, -1, -1, lkind)
         : ver \in {<<2, 1, 0>>, <<2, 1, 2>>, <<2, 1, 9>>}, recp \in Recipients,
           algo \in EncrAlgos, cont \in EncrContents, ndef \in BOOLEAN,
           lkind \in {"exact"} }
  \cup { BodyInput("enveloped", OidEnvelopedData, <<2, 1, 2>>,
                   DerTLV(49, DerTLV(48, <<2, 1, 0>>))
                   \o EncrContentInfo(algo, cont, FALSE), -1, -1, "short")
         : algo \in EncrAlgos, cont \in EncrContents }
  \cup { RawInput("enveloped", OidEnvelopedData, body) : body \in RawBodies }

\* A ContentInfo of another type, and bytes that are none.
OtherInputs ==
  { RawInput("other", OidData, DerTLV(4, <<104, 105>>)),
    [kind |-> "other", der |-> <<4, 2, 104, 105>>, L |-> 0, lkind |-> "raw",
     content_end |-> 4, crl_at |-> -1, crl_next |-> 4] }

DataInputs == SignedInputs \cup EnvelopedInputs \cup OtherInputs

(***************************************************************************)
(* The handle and its driver.  The driver accepts the parse operations in  *)
(* the order of the states S0_INIT .. S5_DONE; between part 1 and part 2   *)
(* the caller sets up its hashing and reads the inner content through the  *)
(* reader.  An operation that fails leaves the handle unusable.            *)
(***************************************************************************)
FreshCms ==
  [pos |-> 0, state |-> "S0_INIT", content |-> FreshContent, content_type |-> "none",
   cms_version |-> 0, digest_algos |-> <<>>, cert_list |-> <<>>,
   inner_cont_oid |-> NoOid, inner_cont_len |-> 0, inner_cont_ndef |-> FALSE,
   detached_data |-> FALSE, encr_algo_oid |-> NoOid, encr_iv |-> NoParm,
   signer_info |-> <<>>, recp_info |-> <<>>]

\* A handle that holds a digest algorithm and a certificate before it is
\* given something to parse.
EarlierCms ==
  [FreshCms EXCEPT !.digest_algos = <<JoinDots(<<1, 2, 840, 113549, 2, 5>>)>>,
                   !.cert_list = <<DerTLV(48, DerTLV(48, <<2, 1, 9>>))>>]

NoDataCall == [op |-> "none", err |-> OK, oom |-> "none", before |-> FreshCms,
               tested |-> -1, ops |-> <<>>]

ParseOps == {"content_info", "part_1", "part_2"}

\* The state in which the driver accepts the operation op, with the part
\* 2 of a body accepted as soon as its type is known.
StateBefore_wrong(op) ==
  IF op = "content_info" THEN "S0_INIT"
  ELSE IF op = "part_1" THEN "S1_CONTENT_INFO"
  ELSE IF op = "hash" THEN "S2_BODY_HEADER"
  ELSE IF op = "content" THEN "S3_HASH_READY"
  ELSE "S1_CONTENT_INFO"

\* The state in which the driver accepts the operation op.
StateBefore(op) ==
  IF op = "content_info" THEN "S0_INIT"
  ELSE IF op = "part_1" THEN "S1_CONTENT_INFO"
  ELSE IF op = "hash" THEN "S2_BODY_HEADER"
  ELSE IF op = "content" THEN "S3_HASH_READY"
  ELSE "S4_BODY_TAIL"

\* The state the operation op leaves when it succeeds.
StateAfter(op) ==
  IF op = "content_info" THEN "S1_CONTENT_INFO"
  ELSE IF op = "part_1" THEN "S2_BODY_HEADER"
  ELSE IF op = "hash" THEN "S3_HASH_READY"
  ELSE IF op = "content" THEN "S4_BODY_TAIL"
  ELSE "S5_DONE"

\* The type of body the content type's OID stands for.
ContentType(oid) ==
  IF oid.null THEN "none"
  ELSE IF oid.str = JoinDots(<<1, 2, 840, 113549, 1, 7, 2>>) THEN "signed"
  ELSE IF oid.str = JoinDots(<<1, 2, 840, 113549, 1, 7, 3>>) THEN "enveloped"
  ELSE "none"

\* The driver's first step: _ksba_cms_parse_content_info and the choice
\* of the body's parser.
cms_parse_begin(c, b, oom) ==
  The({ The({
    IF r.err # OK THEN CmsResult(r.err, h)
    ELSE IF ContentType(h.content.oid) = "none"
      THEN CmsResult("KSBA_Unknown_CMS_Object", h)
    ELSE CmsResult(OK, [h EXCEPT !.content_type = ContentType(h.content.oid)])
    : h \in {[c EXCEPT !.content = r.cms.content, !.pos = r.cms.pos]} })
    : r \in {cms_parse_content_info([content |-> c.content, pos |-> c.pos], b, oom)} })

\* The handle and the record of the operation once it returned r.
DataReturned(op, oom, r, tested) ==
  /\ cms' = [r.cms EXCEPT !.state = IF r.err = OK THEN StateAfter(op) ELSE "unusable"]
  /\ cres' = [op |-> op, err |-> r.err, oom |-> oom, before |-> cms, tested |-> tested,
              ops |-> Append(cres.ops, [op |-> op, err |-> r.err])]

ksba_cms_parse ==
  /\ cms.state = StateBefore("content_info")
  /\ \E oom \in {"none", "oid"} :
       DataReturned("content_info", oom, cms_parse_begin(cms, cin.der, oom), -1)
  /\ UNCHANGED <<cin, certVars, algVars, keyVars>>

_ksba_cms_parse_signed_data_part_1 ==
  /\ cms.state = StateBefore("part_1")
  /\ cms.content_type = "signed"
  /\ \E oom \in {"none", "buffer", "ol", "algoid", "oid"} :
       DataReturned("part_1", oom, signed_data_part_1(cms, cin.der, oom), -1)
  /\ UNCHANGED <<cin, certVars, algVars, keyVars>>

_ksba_cms_parse_enveloped_data_part_1 ==
  /\ cms.state = StateBefore("part_1")
  /\ cms.content_type = "enveloped"
  /\ \E oom \in {"none", "decoder", "oid", "algoid", "parm"} :
       DataReturned("part_1", oom, enveloped_data_part_1(cms, cin.der, oom), -1)
  /\ UNCHANGED <<cin, certVars, algVars, keyVars>>

\* The caller sets up what it does with the inner content.
ksba_cms_set_hash_function ==
  /\ cms.state = StateBefore("hash")
  /\ DataReturned("hash", "none", CmsResult(OK, cms), -1)
  /\ UNCHANGED <<cin, certVars, algVars, keyVars>>

\* The caller reads the inner content through the reader, up to its end.
read_content ==
  /\ cms.state = StateBefore("content")
  /\ DataReturned("content", "none",
                  CmsResult(OK, [cms EXCEPT !.pos = cin.content_end]), -1)
  /\ UNCHANGED <<cin, certVars, algVars, keyVars>>

\* The result of part 2 and the offset it tested, for DataReturned.
SignedTail(oom, r) == DataReturned("part_2", oom, CmsResult(r.err, r.cms), r.tested)

_ksba_cms_parse_signed_data_part_2 ==
  /\ cms.state = StateBefore("part_2")
  /\ cms.content_type = "signed"
  /\ \E oom \in {"none", "decoder", "cert", "cl"} :
       SignedTail(oom, signed_data_part_2(cms, cin.der, oom))
  /\ UNCHANGED <<cin, certVars, algVars, keyVars>>

_ksba_cms_parse_enveloped_data_part_2 ==
  /\ cms.state = StateBefore("part_2")
  /\ cms.content_type = "enveloped"
  /\ DataReturned("part_2", "none", enveloped_data_part_2(cms), -1)
  /\ UNCHANGED <<cin, certVars, algVars, keyVars>>

\* The caller gives the handle up.
ksba_cms_release ==
  /\ cms.state # "released"
  /\ cms' = [FreshCms EXCEPT !.state = "released"]
  /\ cres' = [cres EXCEPT !.op = "release", !.err = OK, !.oom = "none",
                          !.before = cms, !.tested = -1]
  /\ UNCHANGED <<cin, certVars, algVars, keyVars>>

InitData ==
  /\ FreshCert
  /\ IdleAlg
  /\ IdleKey
  /\ cin \in DataInputs
  /\ cms \in {FreshCms, EarlierCms}
  /\ cres = NoDataCall

NextData ==
  \/ ksba_cms_parse
  \/ _ksba_cms_parse_signed_data_part_1
  \/ _ksba_cms_parse_enveloped_data_part_1
  \/ ksba_cms_set_hash_function
  \/ read_content
  \/ _ksba_cms_parse_signed_data_part_2
  \/ _ksba_cms_parse_enveloped_data_part_2
  \/ ksba_cms_release

SpecData == InitData /\ [][NextData]_vars

(***************************************************************************)
(* Claims about the SignedData and EnvelopedData parsers.                  *)
(***************************************************************************)
\* Part 1 of a body has just returned.
Part1Returned == cres.op = "part_1"

\* The header of the body's opening element and, behind it, that of the
\* element that follows.
OpeningHeader == _ksba_ber_read_tl(cin.der, cres.before.pos)
VersionHeader == _ksba_ber_read_tl(cin.der, cres.before.pos + OpeningHeader.nhdr)

\* An INTEGER follows the opening SEQUENCE.
IntegerFollows ==
  /\ OpeningHeader.err = OK
  /\ OpeningHeader.class = CLASS_UNIVERSAL /\ OpeningHeader.tag = TYPE_SEQUENCE
  /\ OpeningHeader.is_constructed
  /\ VersionHeader.err = OK
  /\ VersionHeader.class = CLASS_UNIVERSAL /\ VersionHeader.tag = TYPE_INTEGER
  /\ ~VersionHeader.is_constructed /\ VersionHeader.length # 0

\* The octets of that INTEGER, as far as the input has them.
VersionOctets ==
  Slice(cin.der, cres.before.pos + OpeningHeader.nhdr + VersionHeader.nhdr,
        Min(VersionHeader.length,
            Len(cin.der) - (cres.before.pos + OpeningHeader.nhdr + VersionHeader.nhdr)))

\* The INTEGER lies within the SEQUENCE, if that declares a length, and
\* within the input.
IntegerLiesWithin ==
  /\ OpeningHeader.ndef
       \/ VersionHeader.nhdr + VersionHeader.length <= OpeningHeader.length
  /\ Len(VersionOctets) = VersionHeader.length

\* What the claim says of the call: a version of one octet in 0..4 is
\* accepted and stored, anything else is UNSUPPORTED_CMS_VERSION and the
\* handle's version stays.
VersionRule ==
  IF Len(VersionOctets) = 1 /\ VersionHeader.length = 1 /\ VersionOctets[1] \in 0..4
    THEN /\ parse_cms_version(cin.der, cres.before.pos).err = OK
         /\ cms.cms_version = VersionOctets[1]
  ELSE /\ cres.err = "KSBA_Unsupported_CMS_Version"
       /\ cms.cms_version = cres.before.cms_version

C13_MultiOctetWitness ==
  /\ Part1Returned /\ IntegerFollows /\ IntegerLiesWithin
  /\ VersionOctets = <<0, 1>>
  /\ cres.err = "KSBA_Unsupported_CMS_Version"

\* Part 2 of a SignedData has just returned.
SignedPart2Returned == cres.op = "part_2" /\ cin.kind = "signed"

\* C14: when a [1] (CRL) element is present and part 2 gets to test an
\* element for the SET OF signerInfo, it has refused with
\* UNSUPPORTED_CMS_OBJECT or the element it tests is the one that
\* follows the CRL element, never one inside the CRL's value.
C14_CrlSkipped ==
  (SignedPart2Returned /\ cin.crl_at >= 0 /\ cres.tested >= 0)
    => \/ cres.err = "KSBA_Unsupported_CMS_Object"
       \/ cres.tested = cin.crl_next

\* The header of the body's SEQUENCE.
BodyHeader == _ksba_ber_read_tl(cin.der, BodyAt - 2)

\* C15: for a SignedData whose SEQUENCE declares a length L, when part 1
\* and then part 2 have succeeded, the children consumed - by the
\* parser and, for the inner content, by the caller - make up exactly L
\* octets.
C15_ChildrenSumToLength ==
  (SignedPart2Returned /\ cres.err = OK /\ ~BodyHeader.ndef)
    => cms.pos - BodyAt = BodyHeader.length

\* The operation op is in the history at index i.
Ran(i, op) == cres.ops[i].op = op
RanWell(i, op) == cres.ops[i].op = op /\ cres.ops[i].err = OK

ParsedState(h) ==
  <<h.cms_version, h.digest_algos, h.cert_list, h.inner_cont_oid, h.detached_data,
    h.encr_algo_oid, h.encr_iv>>

\* C17: when part 1 or part 2 of a body returns an error, cms_version,
\* digest_algos, cert_list, inner_cont_oid, detached_data, encr_algo_oid
\* and encr_iv are as they were before the call.
C17_ErrorLeavesHandle ==
  (cres.op \in {"part_1", "part_2"} /\ cres.err # OK)
    => ParsedState(cms) = ParsedState(cres.before)

(***************************************************************************)
(*                 E.  The accessors of the certificate                    *)
(***************************************************************************)
TYPE_UTC_TIME == 23
TYPE_GENERALIZED_TIME == 24

PathSerial == "Certificate.tbsCertificate.serialNumber"
PathIssuer == "Certificate.tbsCertificate.issuer"
PathNotBefore == "Certificate.tbsCertificate.validity.notBefore"
PathNotAfter == "Certificate.tbsCertificate.validity.notAfter"
PathSubject == "Certificate.tbsCertificate.subject"
PathKey == "Certificate.tbsCertificate.subjectPublicKeyInfo"
PathSigAlg == "Certificate.signatureAlgorithm"
PathSigOid == "Certificate.signatureAlgorithm.algorithm"

\* The number the digits of s at 1-based index i .. i + k - 1 stand for.
RECURSIVE Number(_, _, _)
Number(s, i, k) ==
  IF k = 0 THEN 0 ELSE Number(s, i, k - 1) * 10 + (s[i + k - 1] - 48)

\* The number of leading digits of s.
RECURSIVE LeadingDigits(_, _)
LeadingDigits(s, n) ==
  IF n < Len(s) /\ digitp(s[n + 1]) THEN LeadingDigits(s, n + 1) ELSE n

\* The fields of a time "YYMMDDhhmmssZ" or "YYYYMMDDhhmmssZ"; two
\* digits of year stand for 1950 .. 2049.
TimeFields(s, n) ==
  [year |-> IF n = 14 THEN Number(s, 1, 4)
            ELSE IF Number(s, 1, 2) < 50 THEN 2000 + Number(s, 1, 2)
            ELSE 1900 + Number(s, 1, 2),
   mon |-> Number(s, n - 9, 2), day |-> Number(s, n - 7, 2),
   hour |-> Number(s, n - 5, 2), min |-> Number(s, n - 3, 2),
   sec |-> Number(s, n - 1, 2)]

\* s is a time the converter takes.
ValidTime(s) ==
  /\ LeadingDigits(s, 0) \in {12, 14}
  /\ Len(s) = LeadingDigits(s, 0) + 1
  /\ s[Len(s)] = 90
  /\ TimeFields(s, Len(s) - 1).mon \in 1..12
  /\ TimeFields(s, Len(s) - 1).day \in 1..31
  /\ TimeFields(s, Len(s) - 1).hour \in 0..23
  /\ TimeFields(s, Len(s) - 1).min \in 0..59
  /\ TimeFields(s, Len(s) - 1).sec \in 0..59

\* The days from 1970-01-01 to the day d of month m of year y.
DaysFromCivil(y, m, d) ==
  ((IF m <= 2 THEN y - 1 ELSE y) \div 400) * 146097
  + ((IF m <= 2 THEN y - 1 ELSE y) % 400) * 365
  + ((IF m <= 2 THEN y - 1 ELSE y) % 400) \div 4
  - ((IF m <= 2 THEN y - 1 ELSE y) % 400) \div 100
  + (153 * (IF m > 2 THEN m - 3 ELSE m + 9) + 2) \div 5 + d - 1
  - 719468

\* The seconds from the epoch to the time of the fields f.
EpochOfFields(f) ==
  DaysFromCivil(f.year, f.mon, f.day) * 86400 + f.hour * 3600 + f.min * 60 + f.sec

EpochSeconds(s) == EpochOfFields(TimeFields(s, Len(s) - 1))

\* _ksba_asntime_to_epoch: the seconds since the epoch, or fail - the
\* value by which the converter reports that it cannot convert.
_ksba_asntime_to_epoch(s, fail) == IF ValidTime(s) THEN EpochSeconds(s) ELSE fail

\* _ksba_dn_to_str on the bytes of the node: the string for an
\* RDNSequence, an error for anything else.  oom lets its allocation
\* fail.
_ksba_dn_to_str(bytes, oom) ==
  IF oom = "dn" THEN [err |-> "KSBA_Out_Of_Core", str |-> NullStr]
  ELSE IF Len(bytes) < 2 \/ At(bytes, 1) # 48 \/ At(bytes, 2) # Len(bytes) - 2
    THEN [err |-> "KSBA_BER_Error", str |-> NullStr]
  ELSE [err |-> OK, str |-> <<100, 110, 61>> \o bytes]

\* The identifiers of the digest algorithms.
GCRY_MD_MD5 == 1
GCRY_MD_SHA1 == 2

\* _ksba_node_with_oid_to_digest_algo: the digest algorithm of the
\* signature algorithm whose OID the node n holds, 0 for one it does
\* not know, -1 for a node without a value.
_ksba_node_with_oid_to_digest_algo(image, n) ==
  IF n = NullNode \/ n.off = -1 THEN -1
  ELSE IF Slice(image, n.off + n.nhdr, n.len) = sig_algo_table[1].oid THEN GCRY_MD_SHA1
  ELSE IF Slice(image, n.off + n.nhdr, n.len) = sig_algo_table[2].oid THEN GCRY_MD_MD5
  ELSE 0

\* What an accessor hands back: its return value and the handle.
Accessed(ret, c) == [ret |-> ret, cert |-> c]

\* ksba_cert_get_digest_algo on a non-null handle.
digest_algo_of(c, algo) ==
  IF algo = 0 THEN Accessed(0, [c EXCEPT !.last_error = "KSBA_Unknown_Algorithm"])
  ELSE IF algo = -1 THEN Accessed(0, [c EXCEPT !.last_error = "KSBA_No_Value"])
  ELSE Accessed(algo, c)

get_digest_algo(c) ==
  IF ~c.initialized THEN Accessed(0, [c EXCEPT !.last_error = "KSBA_No_Data"])
  ELSE digest_algo_of(c, _ksba_node_with_oid_to_digest_algo(
                           c.image, _ksba_asn_find_node(c.root, PathSigOid)))

\* The serial number as ksba_cert_get_serial hands it out: four octets
\* of length, most significant first, and the value.
SerialBuffer(c, n) ==
  <<(n.len \div 16777216) % 256, (n.len \div 65536) % 256, (n.len \div 256) % 256,
    n.len % 256>> \o Slice(c.image, n.off + n.nhdr, n.len)

serial_of(c, n, oom) ==
  IF n = NullNode THEN Accessed(NullStr, c)
  ELSE IF n.off = -1 THEN Accessed(NullStr, c)
  ELSE IF oom = "buffer" THEN Accessed(NullStr, c)
  ELSE Accessed(SerialBuffer(c, n), c)

\* ksba_cert_get_serial on a non-null handle.
get_serial(c, oom) ==
  IF ~c.initialized THEN Accessed(NullStr, c)
  ELSE serial_of(c, _ksba_asn_find_node(c.root, PathSerial), oom)

\* ksba_cert_get_issuer and ksba_cert_get_subject behind
\* _ksba_dn_to_str, which gave r.
dn_result(c, r) ==
  IF r.err # OK THEN Accessed(NullStr, [c EXCEPT !.last_error = r.err])
  ELSE Accessed(r.str, c)

dn_of(c, n, oom) ==
  IF n = NullNode THEN Accessed(NullStr, c)
  ELSE IF n.down = <<>> THEN Accessed(NullStr, c)
  ELSE IF n.down[1].off = -1 THEN Accessed(NullStr, c)
  ELSE dn_result(c, _ksba_dn_to_str(
                      Slice(c.image, n.down[1].off, n.down[1].nhdr + n.down[1].len), oom))

get_issuer(c, oom) ==
  IF ~c.initialized THEN Accessed(NullStr, c)
  ELSE dn_of(c, _ksba_asn_find_node(c.root, PathIssuer), oom)

get_subject(c, oom) ==
  IF ~c.initialized THEN Accessed(NullStr, c)
  ELSE dn_of(c, _ksba_asn_find_node(c.root, PathSubject), oom)

\* The first of the nodes in kids that is a decoded UTCTime or
\* GeneralizedTime, NullNode if there is none.
RECURSIVE DecodedTime(_)
DecodedTime(kids) ==
  IF kids = <<>> THEN NullNode
  ELSE IF kids[1].type \in {TYPE_UTC_TIME, TYPE_GENERALIZED_TIME} /\ kids[1].off # -1
    THEN kids[1]
  ELSE DecodedTime(Tail(kids))

\* ksba_cert_get_validity behind the converter, which gave t.
validity_result(t) == IF t = 0 THEN -1 ELSE t

validity_of_time(c, n, fail) ==
  IF n = NullNode THEN 0
  ELSE validity_result(_ksba_asntime_to_epoch(Slice(c.image, n.off + n.nhdr, n.len), fail))

validity_of(c, n, fail) ==
  IF n = NullNode THEN 0 ELSE validity_of_time(c, DecodedTime(n.down), fail)

\* ksba_cert_get_validity on a non-null handle.
get_validity(c, what, fail) ==
  IF what < 0 \/ what > 1 THEN Accessed(-1, c)
  ELSE IF ~c.initialized THEN Accessed(-1, c)
  ELSE Accessed(validity_of(c, _ksba_asn_find_node(c.root,
                                 IF what = 0 THEN PathNotBefore ELSE PathNotAfter), fail),
                c)

\* An accessor that returns an S-expression, behind the codec, which
\* gave r.
sexp_result(c, r) ==
  IF r.err # OK THEN Accessed(NullStr, [c EXCEPT !.last_error = r.err])
  ELSE Accessed(r.sexp, c)

public_key_of(c, n, oom) ==
  IF n = NullNode THEN Accessed(NullStr, [c EXCEPT !.last_error = "KSBA_No_Value"])
  ELSE sexp_result(c, keyinfo_to_sexp(Slice(c.image, n.off, n.nhdr + n.len), oom))

\* ksba_cert_get_public_key on a non-null handle.
get_public_key(c, oom) ==
  IF ~c.initialized THEN Accessed(NullStr, c)
  ELSE public_key_of(c, _ksba_asn_find_node(c.root, PathKey), oom)

\* The number of octets ksba_cert_get_sig_val hands to the codec: the
\* algorithm and, if n2 is decoded, the value to its right.
SigValLength(n, n2) ==
  n.nhdr + n.len + (IF n2 = NullNode \/ n2.off = -1 THEN 0 ELSE n2.nhdr + n2.len)

sig_val_of(c, n, oom, tail) ==
  IF n = NullNode THEN Accessed(NullStr, [c EXCEPT !.last_error = "KSBA_No_Value"])
  ELSE IF n.off = -1 THEN Accessed(NullStr, [c EXCEPT !.last_error = "KSBA_No_Value"])
  ELSE sexp_result(c, cryptval_to_sexp(0, Slice(c.image, n.off, SigValLength(n, n.right)),
                                       NullStr, NullStr, NullStr, oom, tail))

\* ksba_cert_get_sig_val on a non-null handle.
get_sig_val(c, oom, tail) ==
  IF ~c.initialized THEN Accessed(NullStr, c)
  ELSE sig_val_of(c, _ksba_asn_find_node(c.root, PathSigAlg), oom, tail)

(***************************************************************************)
(* The certificates the accessors are run on: the image of a certificate  *)
(* put together from its parts, and the tree the decoder made of it, with  *)
(* one of its nodes sound, left without a value, or not there.             *)
(***************************************************************************)
TimeEpoch == <<55, 48, 48, 49, 48, 49, 48, 48, 48, 48, 48, 48, 90>>      \* "700101000000Z"
TimeEpoch1 == <<55, 48, 48, 49, 48, 49, 48, 48, 48, 48, 48, 49, 90>>      \* "700101000001Z"
Time1999 == <<57, 57, 49, 50, 51, 49, 50, 51, 53, 57, 53, 57, 90>>      \* "991231235959Z"
Time2020 == <<50, 48, 50, 48, 48, 50, 50, 57, 49, 50, 48, 48, 48, 48, 90>>      \* "20200229120000Z"
Time1969 == <<54, 57, 49, 50, 51, 49, 50, 51, 53, 57, 53, 57, 90>>      \* "691231235959Z"
TimeNoZ == <<57, 57, 49, 50, 51, 49, 50, 51, 53, 57, 53, 57, 48>>      \* "9912312359590"
TimeShort == <<57, 57, 49, 50, 51, 90>>      \* "99123Z"
TimeMonth13 == <<57, 57, 49, 51, 51, 49, 50, 51, 53, 57, 53, 57, 90>>      \* "991331235959Z"

Times == { [type |-> TYPE_UTC_TIME, str |-> s]
             : s \in {TimeEpoch, TimeEpoch1, Time1999, Time1969, TimeNoZ, TimeShort,
                      TimeMonth13} }
         \cup { [type |-> TYPE_GENERALIZED_TIME, str |-> Time2020] }

\* The length of the header of the TLV t, and the node the decoder
\* makes of t at offset off of the image.
HdrLen(t) == IF t[2] < 128 THEN 2 ELSE 2 + (t[2] - 128)

Node(off, t, type, down) ==
  [off |-> off, nhdr |-> HdrLen(t), len |-> Len(t) - HdrLen(t), type |-> type,
   down |-> down, right |-> NullNode]

\* A node the decoder left without a value.
Unfilled(type) ==
  [off |-> -1, nhdr |-> 0, len |-> 0, type |-> type, down |-> <<>>, right |-> NullNode]

TimeTlv(t) == DerTLV(t.type, t.str)

CommonName(s) ==
  DerTLV(48, DerTLV(49, DerTLV(48, DerTLV(6, <<85, 4, 3>>) \o DerTLV(12, s))))

SigAlgId(oid) == DerTLV(48, DerTLV(6, oid) \o DerNull)

\* The parts of a certificate: serial number, signature algorithm,
\* issuer, the two times, subject, key and signature value.
CertParts(nb, na, spki, sigoid) ==
  [serial |-> DerTLV(2, <<1, 35>>), sigalg |-> SigAlgId(sigoid),
   issuer |-> CommonName(<<67, 65>>), nb |-> TimeTlv(nb), na |-> TimeTlv(na),
   nbtype |-> nb.type, natype |-> na.type,
   subject |-> CommonName(<<77, 101>>), spki |-> spki,
   sigval |-> DerTLV(3, <<0>> \o RawKey)]

Validity(p) == DerTLV(48, p.nb \o p.na)
TbsCertificate(p) ==
  DerTLV(48, p.serial \o p.sigalg \o p.issuer \o Validity(p) \o p.subject \o p.spki)
CertImage(p) == DerTLV(48, TbsCertificate(p) \o p.sigalg \o p.sigval)

\* The offsets of the parts in the image.
OffTbs(p) == HdrLen(CertImage(p))
OffSerial(p) == OffTbs(p) + HdrLen(TbsCertificate(p))
OffIssuer(p) == OffSerial(p) + Len(p.serial) + Len(p.sigalg)
OffValidity(p) == OffIssuer(p) + Len(p.issuer)
OffSubject(p) == OffValidity(p) + Len(Validity(p))
OffKey(p) == OffSubject(p) + Len(p.subject)
OffSigAlg(p) == OffTbs(p) + Len(TbsCertificate(p))

\* The tree of the certificate of the parts p, as far as the accessors
\* walk it.  The nodes of the CHOICEs Name and Time have the chosen
\* alternative below them, at the same offset.
CertRoot(p) ==
  [Certificate |-> Node(0, CertImage(p), TYPE_SEQUENCE, <<>>),
   tbsCertificate |-> Node(OffTbs(p), TbsCertificate(p), TYPE_SEQUENCE, <<>>)]
  @@ (PathSerial :> Node(OffSerial(p), p.serial, TYPE_INTEGER, <<>>))
  @@ (PathIssuer :> Node(OffIssuer(p), p.issuer, 0,
                         <<Node(OffIssuer(p), p.issuer, TYPE_SEQUENCE, <<>>)>>))
  @@ (PathNotBefore :> Node(OffValidity(p) + HdrLen(Validity(p)), p.nb, 0,
         <<Unfilled(IF p.nbtype = TYPE_UTC_TIME THEN TYPE_GENERALIZED_TIME
                    ELSE TYPE_UTC_TIME),
           Node(OffValidity(p) + HdrLen(Validity(p)), p.nb, p.nbtype, <<>>)>>))
  @@ (PathNotAfter :> Node(OffValidity(p) + HdrLen(Validity(p)) + Len(p.nb), p.na, 0,
         <<Node(OffValidity(p) + HdrLen(Validity(p)) + Len(p.nb), p.na, p.natype, <<>>),
           Unfilled(IF p.natype = TYPE_UTC_TIME THEN TYPE_GENERALIZED_TIME
                    ELSE TYPE_UTC_TIME)>>))
  @@ (PathSubject :> Node(OffSubject(p), p.subject, 0,
                          <<Node(OffSubject(p), p.subject, TYPE_SEQUENCE, <<>>)>>))
  @@ (PathKey :> Node(OffKey(p), p.spki, TYPE_SEQUENCE, <<>>))
  @@ (PathSigAlg :> [Node(OffSigAlg(p), p.sigalg, TYPE_SEQUENCE, <<>>)
                       EXCEPT !.right = Node(OffSigAlg(p) + Len(p.sigalg), p.sigval,
                                             TYPE_BIT_STRING, <<>>)])
  @@ (PathSigOid :> Node(OffSigAlg(p) + HdrLen(p.sigalg),
                         SubSeq(p.sigalg, HdrLen(p.sigalg) + 1,
                                Len(p.sigalg) - Len(DerNull)),
                         TYPE_OBJECT_ID, <<>>))

AccessorPaths ==
  {PathSerial, PathIssuer, PathNotBefore, PathNotAfter, PathSubject, PathKey,
   PathSigAlg, PathSigOid}

\* The node n as the decoder leaves it in a tree that lacks something.
Degraded(n, how) ==
  IF how = "null" THEN NullNode
  ELSE IF how = "unfilled" THEN Unfilled(n.type)
  ELSE IF how = "nochild" THEN [n EXCEPT !.down = <<>>]
  ELSE IF how = "childless" THEN [n EXCEPT !.down = << Unfilled(TYPE_SEQUENCE) >>]
  ELSE [n EXCEPT !.right = Unfilled(TYPE_BIT_STRING)]

Defects ==
  (AccessorPaths \X {"null", "unfilled"})
  \cup ({PathIssuer, PathSubject, PathNotBefore, PathNotAfter} \X {"nochild", "childless"})
  \cup {<<PathSigAlg, "noright">>}

\* The handle read_der leaves for the parts p.
Populate(p, root) ==
  [initialized |-> TRUE, asn_tree |-> "tmttv2", root |-> root,
   image |-> CertImage(p), imagelen |-> Len(CertImage(p)), last_error |-> OK]

CertKeys ==
  { KeyDer(OidRsaEncryption, DerNull, 0, DerTLV(48, DerTLV(2, <<0, 193, 5>>) \o DerTLV(2, <<3>>))),
    KeyDer(OidUnknown, DerNull, 0, RawKey) }

SigOids == { sig_algo_table[1].oid, sig_algo_table[2].oid, sig_algo_table[3].oid, OidUnknown }

BaseParts ==
  CertParts([type |-> TYPE_UTC_TIME, str |-> Time1999],
            [type |-> TYPE_GENERALIZED_TIME, str |-> Time2020],
            KeyDer(OidRsaEncryption, DerNull, 0,
                   DerTLV(48, DerTLV(2, <<0, 193, 5>>) \o DerTLV(2, <<3>>))),
            sig_algo_table[1].oid)

AccessorCerts ==
  {ksba_cert_new}
  \cup { Populate(CertParts(nb, na, spki, sigoid), CertRoot(CertParts(nb, na, spki, sigoid)))
         : nb \in Times, na \in {t \in Times : t.str \in {Time2020, TimeEpoch}},
           spki \in CertKeys, sigoid \in SigOids }
  \cup { Populate(BaseParts,
                  [CertRoot(BaseParts) EXCEPT ![d[1]] = Degraded(@, d[2])])
         : d \in Defects }

\* An accessor has returned r.
AccessorReturned(op, arg, what, r) ==
  /\ cert' = r.cert
  /\ last' = [op |-> op, err |-> OK, pre |-> cert, arg |-> arg, what |-> what,
              ret |-> r.ret]
  /\ UNCHANGED <<alive, heap, hashed, algVars, cmsVars, keyVars>>

ksba_cert_get_digest_algo ==
  /\ alive
  /\ AccessorReturned("get_digest_algo", "none", 0, get_digest_algo(cert))

ksba_cert_get_serial ==
  /\ alive
  /\ \E oom \in {"none", "buffer"} :
       AccessorReturned("get_serial", oom, 0, get_serial(cert, oom))

ksba_cert_get_issuer ==
  /\ alive
  /\ \E oom \in {"none", "dn"} :
       AccessorReturned("get_issuer", oom, 0, get_issuer(cert, oom))

ksba_cert_get_subject ==
  /\ alive
  /\ \E oom \in {"none", "dn"} :
       AccessorReturned("get_subject", oom, 0, get_subject(cert, oom))

ksba_cert_get_validity ==
  /\ alive
  /\ \E what \in 0..2, fail \in {0, -1} :
       AccessorReturned("get_validity", fail, what, get_validity(cert, what, fail))

ksba_cert_get_public_key ==
  /\ alive
  /\ \E oom \in {"none", "stringbuf"} :
       AccessorReturned("get_public_key", oom, 0, get_public_key(cert, oom))

ksba_cert_get_sig_val ==
  /\ alive
  /\ \E oom \in {"none", "stringbuf"}, tail \in CtrlTails :
       AccessorReturned("get_sig_val", oom, 0, get_sig_val(cert, oom, tail))

InitAccessors ==
  /\ cert \in AccessorCerts
  /\ alive = TRUE
  /\ heap = {"handle"} \cup OwnedBy(cert)
  /\ last = NoCall
  /\ hashed = <<>>
  /\ IdleAlg
  /\ IdleCms
  /\ IdleKey

NextAccessors ==
  \/ ksba_cert_get_digest_algo
  \/ ksba_cert_get_serial
  \/ ksba_cert_get_issuer
  \/ ksba_cert_get_subject
  \/ ksba_cert_get_validity
  \/ ksba_cert_get_public_key
  \/ ksba_cert_get_sig_val
  \/ ksba_cert_release

SpecAccessors == InitAccessors /\ [][NextAccessors]_vars

(***************************************************************************)
(* Claims about the accessors, checked under SpecAccessors, and about the  *)
(* release of a certificate, checked under SpecCert.                       *)
(***************************************************************************)
PointerAccessors ==
  {"get_serial", "get_issuer", "get_subject", "get_public_key", "get_sig_val"}

\* The node of the time the last ksba_cert_get_validity asked for, the
\* first decoded UTCTime or GeneralizedTime below it (NullNode if the
\* node is absent or has none), and the bytes of that time.
RequestedNode ==
  _ksba_asn_find_node(last.pre.root,
                      IF last.what = 0 THEN PathNotBefore ELSE PathNotAfter)
RequestedTime ==
  IF RequestedNode = NullNode THEN NullNode ELSE DecodedTime(RequestedNode.down)
RequestedBytes ==
  Slice(last.pre.image, RequestedTime.off + RequestedTime.nhdr, RequestedTime.len)

\* The last call was an accessor and returned its failure sentinel: NULL
\* for a buffer or string, 0 for the digest algorithm, -1 for a time
\* (unless that is the time asked for, a second before the epoch).
AccessorFailed ==
  \/ last.op \in PointerAccessors /\ last.ret = NullStr
  \/ last.op = "get_digest_algo" /\ last.ret = 0
  \/ /\ last.op = "get_validity"
     /\ last.ret = -1
     /\ ~(/\ last.pre.initialized
          /\ last.what \in {0, 1}
          /\ RequestedTime # NullNode
          /\ ValidTime(RequestedBytes))

\* C18: whenever an accessor returns its failure sentinel on a non-null
\* handle, the handle's last_error holds an error code.
C18_FailureStoresError == AccessorFailed => cert.last_error # OK

\* The part of C18 that holds: ksba_cert_get_digest_algo stores a code
\* whenever it returns 0, and so do ksba_cert_get_public_key and
\* ksba_cert_get_sig_val on an initialized certificate.
C18_CodecAccessorsStoreError ==
  (AccessorFailed
     /\ \/ last.op = "get_digest_algo"
        \/ last.op \in {"get_public_key", "get_sig_val"} /\ last.pre.initialized)
    => cert.last_error # OK

C18_CodecWitness ==
  /\ last.op = "get_public_key"
  /\ last.pre.initialized
  /\ last.pre.last_error = OK
  /\ last.ret = NullStr
  /\ cert.last_error = "GPG_ERR_UNKNOWN_ALGORITHM"

\* ksba_cert_get_validity has returned from a call on an initialized
\* certificate for notBefore or notAfter.
ValidityReturned ==
  /\ last.op = "get_validity"
  /\ last.pre.initialized
  /\ last.what \in {0, 1}

\* C19: ksba_cert_get_validity on an initialized certificate returns 0
\* when the requested node is absent or has no decoded UTCTime or
\* GeneralizedTime child, -1 when the bytes of the time do not convert,
\* and else the seconds since the epoch of the first decoded UTCTime or
\* GeneralizedTime child.
C19_ValidityIsEpochSeconds ==
  ValidityReturned =>
    IF RequestedTime = NullNode THEN last.ret = 0
    ELSE IF ~ValidTime(RequestedBytes) THEN last.ret = -1
    ELSE last.ret = EpochSeconds(RequestedBytes)

\* The part of C19 that holds: the same for every time but the epoch
\* itself, and never 0 for a time that is there.
C19_ValidityButForTheEpoch ==
  ValidityReturned =>
    IF RequestedTime = NullNode THEN last.ret = 0
    ELSE IF ~ValidTime(RequestedBytes) THEN last.ret = -1
    ELSE IF EpochSeconds(RequestedBytes) = 0 THEN last.ret = -1
    ELSE last.ret = EpochSeconds(RequestedBytes)

C19_Witness ==
  /\ ValidityReturned
  /\ RequestedTime # NullNode
  /\ RequestedBytes = Time1999
  /\ last.ret = 946684799

\* C20: after ksba_cert_release on a certificate that a successful parse
\* populated, nothing the handle owned is still allocated: not the
\* image, not the decoded tree, not the schema tree, not the handle.
C20_ReleaseFreesAll ==
  (last.op = "release" /\ last.pre.initialized) => heap = {}

(***************************************************************************)
(*   Claim C21                                                             *)
(***************************************************************************)

\* The entry a reader found: the input carries the OID bytes of entry
\* kin.entry of the reader's table.
ReaderFound == ReaderLookedUp /\ kin.entry # 0

\* The entry oid_from_buffer hands to a writer for the name it looked up:
\* the table of signature algorithms first for _ksba_algoinfo_from_sexp,
\* then the table of public-key algorithms.
WriterFoundSig ==
  WriterLookedUp /\ kin.kind = "algosexp"
    /\ NameLookup(sig_algo_table, WriterName) # 0

WriterFoundPk ==
  WriterLookedUp /\ ~WriterFoundSig /\ NameLookup(pk_algo_table, WriterName) # 0

\* The stored OID bytes of entry e are the DER value bytes of its dotted
\* OID string, and oidlen is their number.
OidIsDerOfDotted(e) ==
  /\ _ksba_oid_from_buf(e.oidstring) = [err |-> OK, oid |-> e.oid]
  /\ e.oidlen = Len(e.oid)
  /\ ksba_oid_to_str(e.oid) = e.oidstring

\* C21: for every entry of the public-key, signature and key-encryption
\* tables - here every entry a reader finds by its OID bytes or a writer
\* by its name - the stored DER OID bytes (oid, oidlen) are exactly the
\* DER value bytes of the entry's dotted OID string, without tag or
\* length octets.
C21_OidIsDerOfDottedOid ==
  /\ ReaderFound => OidIsDerOfDotted(ReaderTable[kin.entry])
  /\ WriterFoundSig
       => OidIsDerOfDotted(sig_algo_table[NameLookup(sig_algo_table, WriterName)])
  /\ WriterFoundPk
       => OidIsDerOfDotted(pk_algo_table[NameLookup(pk_algo_table, WriterName)])

\* The entries for which it does not hold: the first 1.2.840.10040.4.3 of
\* the signature table stores the bytes of 1.2.840.10040.4.1, and
\* 2.16.840.1.101.3.4.3.1 and 2.16.840.1.101.3.4.3.2 both store the
\* whole TLV of 2.16.840.1.101.3.4.3.1.
InconsistentEntries == {sig_algo_table[4], sig_algo_table[7], sig_algo_table[8]}

\* Every other entry of the three tables holds the DER value bytes of its
\* dotted string.
C21_OtherEntriesConsistent ==
  \A e \in ({pk_algo_table[i] : i \in 1..Len(pk_algo_table)}
            \cup {sig_algo_table[i] : i \in 1..Len(sig_algo_table)}
            \cup {enc_algo_table[i] : i \in 1..Len(enc_algo_table)})
           \ InconsistentEntries :
    kpc \in {"sexp", "done"} => OidIsDerOfDotted(e)

\* A writer was asked for 1.2.840.10040.4.3 and wrote the OID of
\* 1.2.840.10040.4.1.
C21_WrongOidWritten ==
  /\ WriterFoundSig /\ WriterName = Str_1_2_840_10040_4_3
  /\ kder.err = OK
  /\ ksba_oid_to_str(Slice(kder.bytes, 4, kder.bytes[4])) = <<49, 46, 50, 46, 56, 52, 48, 46, 49, 48, 48, 52, 48, 46, 52, 46, 49>>

(***************************************************************************)
(*   Claim C22                                                             *)
(***************************************************************************)

\* A control descriptor that holds one byte per character of its element
\* descriptor; both are NULL together.
Parallel(elem, ctrl) ==
  IF elem = NullStr \/ ctrl = NullStr THEN elem = ctrl
  ELSE Len(elem) = Len(ctrl)

DescriptorsParallel(e) ==
  /\ Parallel(e.elem_string, e.ctrl_string)
  /\ Parallel(e.parmelem_string, e.parmctrl_string)

\* Bytes that could stand at and behind the end of a control descriptor,
\* were the end not a NUL.
AnyTails == { <<c, d>> : c, d \in {0, 2, 128} }

\* cryptval_to_sexp has returned from the input.
CryptvalReturned == kpc = "sexp" /\ kin.kind \in {"sigval", "encval", "kari"}

\* What the call would have returned with tail at and behind the end of
\* the control descriptor.
CryptvalWith(tail) ==
  IF kin.kind = "sigval"
    THEN cryptval_to_sexp(0, kin.bytes, NullStr, NullStr, NullStr, ksexp.oom, tail)
  ELSE IF kin.kind = "encval"
    THEN cryptval_to_sexp(1, kin.bytes, NullStr, NullStr, NullStr, ksexp.oom, tail)
  ELSE encval_kari_to_sexp(kin.bytes, KariEncrAlgo, KariWrapAlgo, KariEncrKey,
                           ksexp.oom, tail)

\* C22: for every entry of the three algorithm tables - here every entry
\* a reader finds - the control descriptor holds exactly one byte per
\* character of the element descriptor, and likewise for the parameter
\* descriptors, so that the element walk never compares a tag against a
\* byte at or beyond the end of the control descriptor: what the walk
\* returns does not depend on the bytes that stand there.
C22_ControlParallelToElements ==
  /\ ReaderFound => DescriptorsParallel(ReaderTable[kin.entry])
  /\ CryptvalReturned
       => \A tail \in AnyTails :
            CryptvalWith(tail) = [err |-> ksexp.err, sexp |-> ksexp.bytes]

\* The entries for which it does not hold: Ed25519 and Ed448 of the
\* signature table have the three elements "-rs" and the one control
\* byte 80.
UnparallelEntries == {sig_algo_table[24], sig_algo_table[25]}

\* Every other entry of the three tables has parallel descriptors, and
\* the walk over them stays within the control descriptor.
C22_OtherEntriesParallel ==
  /\ \A e \in ({pk_algo_table[i] : i \in 1..Len(pk_algo_table)}
               \cup {sig_algo_table[i] : i \in 1..Len(sig_algo_table)}
               \cup {enc_algo_table[i] : i \in 1..Len(enc_algo_table)})
              \ UnparallelEntries :
       kpc \in {"sexp", "done"} => DescriptorsParallel(e)
  /\ CryptvalReturned /\ ~(kin.kind = "sigval" /\ kin.entry \in {24, 25})
       => \A tail \in AnyTails :
            CryptvalWith(tail) = [err |-> ksexp.err, sexp |-> ksexp.bytes]

\* The walk over an Ed25519 signature went on behind the end of the
\* control descriptor and took the byte it found there for the mark of a
\* raw value.
C22_WalkedBehindTheEnd ==
  /\ CryptvalReturned /\ kin.kind = "sigval" /\ kin.entry = 24
  /\ kin.bytes = ValDer(sig_algo_table[24].oid, <<>>, 3, <<0>> \o EdSignature)
  /\ ksexp.err = OK
  /\ CryptvalWith(<<0, 0>>).err = "GPG_ERR_UNEXPECTED_TAG"

(***************************************************************************)
(*   Claim C23                                                             *)
(***************************************************************************)

\* _ksba_sigval_to_sexp has returned from an rsaPSS signature whose
\* parameters are a SEQUENCE, so that it called _ksba_keyinfo_get_pss_info
\* on them.
PssConsulted ==
  /\ kpc = "sexp" /\ kin.kind = "sigval"
  /\ get_algorithm(1, kin.bytes, TRUE).err = OK
  /\ get_algorithm(1, kin.bytes, TRUE).parm_type = TYPE_SEQUENCE
  /\ AlgoLookup(sig_algo_table,
                Slice(kin.bytes, get_algorithm(1, kin.bytes, TRUE).pos,
                      get_algorithm(1, kin.bytes, TRUE).len)) = 22

\* What that call returned.
PssOfSigval ==
  _ksba_keyinfo_get_pss_info(
    Slice(kin.bytes, get_algorithm(1, kin.bytes, TRUE).parm_pos,
          get_algorithm(1, kin.bytes, TRUE).parm_len),
    ksexp.oom)

\* C23: no core operation returns success after one of its sub-steps
\* returned an error: _ksba_sigval_to_sexp on an rsaPSS signature fails
\* whenever parsing its SEQUENCE parameters fails, instead of emitting a
\* sig-val without the pss elements.
C23_PssErrorFailsSigval ==
  PssConsulted /\ PssOfSigval.err # OK => ksexp.err # OK

\* What holds: every error of the parameters but INV_OBJ is returned, and
\* with it.
C23_OtherPssErrorsReturned ==
  PssConsulted /\ PssOfSigval.err \notin {OK, "GPG_ERR_INV_OBJ"}
    => ksexp.err = PssOfSigval.err

\* Parameters whose MGF hash is not the outer hash were INV_OBJ, and the
\* call returned a sig-val without the pss elements.
C23_SwallowedWitness ==
  /\ PssConsulted /\ PssOfSigval.err = "GPG_ERR_INV_OBJ"
  /\ ksexp.err = OK
  /\ ksexp.bytes = Str_open_sig_val \o put_stringbuf_sexp(Str_rsa)
                     \o Str_open_s \o put_stringbuf_sexp(RawKey) \o <<41, 41, 41>>

\* Parameters with a broken SEQUENCE in [1] made the call fail.
C23_ReturnedWitness ==
  PssConsulted /\ PssOfSigval.err = "GPG_ERR_BAD_BER" /\ ksexp.err = "GPG_ERR_BAD_BER"

(***************************************************************************)
(*   Claim C24                                                             *)
(***************************************************************************)

\* _ksba_keyinfo_get_pss_info has returned from the parameters.
PssReturned == kin.kind = "pss" /\ kpc = "done"

\* The parameters that lack the shape in one of the ways of C24: a [0]
\* or [1] element or a SEQUENCE in them that is not there or is wrong, an
\* MGF OID other than pkcs1-MGF, or an MGF hash other than the hash.
ShapeDefects ==
  {"no_tag0", "wrong_tag0", "seq0_wrong", "no_tag1", "wrong_tag1",
   "seq1_wrong", "seq1_broken", "seq2_missing", "seq2_wrong", "seq2_broken",
   "mgf_oid_other", "mgf_hash_differs"}

\* Of these, the SEQUENCE in [1] and the SEQUENCE of the MGF parameters
\* whose header cannot be read.
BrokenInTag1 == {"seq1_broken", "seq2_broken"}

\* C24: whenever the RSA-PSS parameter bytes do not have the required
\* shape - missing or wrong [0] or [1] element or inner SEQUENCE, an MGF
\* OID other than 1.2.840.113549.1.1.8, or an MGF hash OID different from
\* the outer hash OID - _ksba_keyinfo_get_pss_info returns INV_OBJ, stores
\* NULL as the hash and 0 as the salt length.
C24_MalformedIsInvObj ==
  PssReturned /\ kin.parm \in ShapeDefects
    => /\ kder.err = "GPG_ERR_INV_OBJ"
       /\ kder.bytes = NullStr
       /\ kder.saltlen = UInt(0)

\* C24 as it holds: the error is INV_OBJ unless it is the SEQUENCE in [1]
\* or the SEQUENCE of the MGF parameters whose encoding is broken, where
\* the error of parse_sequence is returned as it is (if the hash OID
\* could be allocated before); with every error NULL is stored as the
\* hash and 0 as the salt length.
C24_MalformedIsInvObjOrBerError ==
  /\ PssReturned /\ kin.parm \in ShapeDefects \ BrokenInTag1
       => kder.err = "GPG_ERR_INV_OBJ"
  /\ PssReturned /\ kin.parm \in BrokenInTag1
       => kder.err = (IF kder.oom = "psshash" THEN "GPG_ERR_INV_OBJ" ELSE "GPG_ERR_BAD_BER")
  /\ PssReturned /\ kder.err # OK
       => kder.bytes = NullStr /\ kder.saltlen = UInt(0)

\* Parameters with another MGF OID and parameters with another MGF hash
\* have been refused with INV_OBJ.
C24_Witness ==
  /\ PssReturned /\ kin.parm = "mgf_oid_other" /\ kder.oom = "none"
  /\ kder.err = "GPG_ERR_INV_OBJ" /\ kder.bytes = NullStr /\ kder.saltlen = UInt(0)

C24_HashWitness ==
  /\ PssReturned /\ kin.parm = "mgf_hash_differs" /\ kder.oom = "none"
  /\ kder.err = "GPG_ERR_INV_OBJ" /\ kder.bytes = NullStr /\ kder.saltlen = UInt(0)

(***************************************************************************)
(*   Claim C25                                                             *)
(***************************************************************************)

RECURSIVE Elements(_)
\* The elements of a value whose lengths are of one octet, in the order
\* in which they stand.
Elements(b) ==
  IF Len(b) < 2 \/ Len(b) < 2 + b[2] THEN <<>>
  ELSE <<SubSeq(b, 1, 2 + b[2])>> \o Elements(SubSeq(b, 3 + b[2], Len(b)))

\* The element of the input at offset p, and its value.
ElementAt(p) == Slice(cin.der, p, 2 + At(cin.der, p + 2))
ValueAt(p) == Slice(cin.der, p + 2, At(cin.der, p + 2))

Reverse(s) == [i \in 1..Len(s) |-> s[Len(s) + 1 - i]]

\* The OIDs of the AlgorithmIdentifiers of the digestAlgorithms SET, which
\* stands behind the version, as strings and in the order of the wire.
WireDigestAlgos ==
  [i \in 1..Len(Elements(ValueAt(BodyAt + Len(ElementAt(BodyAt))))) |->
     ksba_oid_to_str(
       SubSeq(Elements(ValueAt(BodyAt + Len(ElementAt(BodyAt))))[i], 5,
              4 + Elements(ValueAt(BodyAt + Len(ElementAt(BodyAt))))[i][4]))]

\* The certificates of the [0] element behind the inner content, in the
\* order of the wire; none if there is no such element.
WireCertificates ==
  IF At(cin.der, cin.content_end + 1) = 160 THEN Elements(ValueAt(cin.content_end))
  ELSE <<>>

SignedPart1Succeeded ==
  cres.op = "part_1" /\ cres.err = OK /\ cms.content_type = "signed"

SignedPart2Succeeded ==
  cres.op = "part_2" /\ cres.err = OK /\ cms.content_type = "signed"

\* C25: after a successful _ksba_cms_parse_signed_data_part_1 digest_algos
\* holds exactly one entry per AlgorithmIdentifier of the digestAlgorithms
\* SET, in the exact reverse of their order on the wire, placed before
\* any entries already present; after part 2 cert_list likewise holds the
\* embedded certificates in reverse wire order.
C25_ListsInReverseWireOrder ==
  /\ SignedPart1Succeeded
       => cms.digest_algos = Reverse(WireDigestAlgos) \o cres.before.digest_algos
  /\ SignedPart2Succeeded
       => cms.cert_list = Reverse(WireCertificates) \o cres.before.cert_list

\* The half of the digest algorithms.
C25_DigestAlgosInReverseWireOrder ==
  SignedPart1Succeeded
    => cms.digest_algos = Reverse(WireDigestAlgos) \o cres.before.digest_algos

\* What cert_list holds: the certificates the loop has read, which are
\* those of the [0] element and every certificate that stands behind it.
C25_CertificatesReadInReverseOrder ==
  SignedPart2Succeeded
    => \E n \in 0..2 :
         /\ Len(cms.cert_list) = n + Len(cres.before.cert_list)
         /\ SubSeq(cms.cert_list, n + 1, Len(cms.cert_list)) = cres.before.cert_list
         /\ Len(WireCertificates) <= n
         /\ \A i \in 1..Len(WireCertificates) :
              cms.cert_list[n + 1 - i] = WireCertificates[i]

\* SHA-256 and SHA-1 have been put, SHA-1 first, before the algorithm
\* the handle held.
C25_DigestWitness ==
  /\ SignedPart1Succeeded
  /\ Len(cres.before.digest_algos) = 1
  /\ cms.digest_algos = <<JoinDots(<<1, 3, 14, 3, 2, 26>>), Str_sha256>>
                          \o cres.before.digest_algos

\* Two certificates of the [0] element have been put, the second first,
\* before the certificate the handle held.
C25_CertWitness ==
  /\ SignedPart2Succeeded
  /\ Len(cres.before.cert_list) = 1
  /\ WireCertificates = <<Cert1, Cert2>>
  /\ cms.cert_list = <<Cert2, Cert1>> \o cres.before.cert_list

(***************************************************************************)
(*   Claim C26                                                             *)
(***************************************************************************)

RECURSIVE SkipElement(_, _), SkipToEndTag(_, _)
\* The offset behind the element that begins at offset p, of a length of
\* one octet or of indefinite length.
SkipElement(b, p) ==
  IF At(b, p + 2) = 128 THEN SkipToEndTag(b, p + 2)
  ELSE p + 2 + At(b, p + 2)

\* The offset behind the end tag that closes the elements from offset p.
SkipToEndTag(b, p) ==
  IF p + 2 > Len(b) THEN Len(b)
  ELSE IF b[p + 1] = 0 /\ b[p + 2] = 0 THEN p + 2
  ELSE SkipToEndTag(b, SkipElement(b, p))

\* Where the encryptedContentInfo begins, behind the version and the
\* recipientInfos, and where the TLV behind its AlgorithmIdentifier begins.
EncrInfoAt == SkipElement(cin.der, SkipElement(cin.der, BodyAt))
AfterAlgorithmAt == SkipElement(cin.der, SkipElement(cin.der, EncrInfoAt + 2))

\* Whether the encryptedContentInfo is of indefinite length, and what of
\* its declared length remains behind the AlgorithmIdentifier.
EncrInfoNdef == At(cin.der, EncrInfoAt + 2) = 128
EncrInfoRemaining == At(cin.der, EncrInfoAt + 2) - (AfterAlgorithmAt - (EncrInfoAt + 2))

\* The header parse_encrypted_content_info reads behind the
\* AlgorithmIdentifier, and whether it is that of a [0].
HeaderAfterAlgorithm == _ksba_ber_read_tl(cin.der, AfterAlgorithmAt)
IsTag0(ti) == ti.err = OK /\ ti.class = CLASS_CONTEXT /\ ti.tag = 0

\* parse_encrypted_content_info has succeeded in part 1 and has read a
\* header behind the AlgorithmIdentifier.
EncrHeaderRead ==
  /\ cres.op = "part_1"
  /\ cms.content_type = "enveloped"
  /\ ~cms.encr_algo_oid.null
  /\ EncrInfoNdef \/ EncrInfoRemaining # 0

\* C26: in parse_encrypted_content_info, when the TLV behind the
\* AlgorithmIdentifier is not a context [0], its header is pushed back so
\* that the next read_tl returns the same TLV, has_content is 0
\* (detached_data true) and the remaining length is not decremented; when
\* it is a context [0], primitive or constructed, has_content is 1 and the
\* reader stands at the first byte of its value.
C26_PushBackUnlessTag0 ==
  EncrHeaderRead =>
    IF IsTag0(HeaderAfterAlgorithm)
      THEN /\ ~cms.detached_data
           /\ cms.pos = AfterAlgorithmAt + HeaderAfterAlgorithm.nhdr
    ELSE /\ cms.detached_data
         /\ _ksba_ber_read_tl(cin.der, cms.pos) = HeaderAfterAlgorithm
         /\ cms.pos = AfterAlgorithmAt
         /\ cms.inner_cont_ndef = EncrInfoNdef
         /\ ~EncrInfoNdef => cms.inner_cont_len = EncrInfoRemaining

\* An OCTET STRING with a header of three octets stood behind the
\* AlgorithmIdentifier of an encryptedContentInfo of definite length, and
\* the reader stands before it again.
C26_Witness ==
  /\ EncrHeaderRead
  /\ ~EncrInfoNdef
  /\ ~IsTag0(HeaderAfterAlgorithm)
  /\ HeaderAfterAlgorithm.nhdr = 3
  /\ cms.detached_data
  /\ cms.pos = AfterAlgorithmAt
  /\ cms.inner_cont_len = 4

\* A primitive [0] stood there, and the reader stands at its value.
C26_ContentWitness ==
  /\ EncrHeaderRead
  /\ IsTag0(HeaderAfterAlgorithm)
  /\ ~HeaderAfterAlgorithm.is_constructed
  /\ ~cms.detached_data
  /\ cms.pos = AfterAlgorithmAt + 2

(***************************************************************************)
(*   Claim C27                                                             *)
(***************************************************************************)

\* The value of the content type's OBJECT IDENTIFIER, whose header
\* parse_content_info accepts, reaches beyond the end of the input: the
\* reader fails inside read_buffer.
OidValueCut(b, s, o) ==
  /\ s.err = OK /\ s.class = CLASS_UNIVERSAL /\ s.tag = TYPE_SEQUENCE /\ s.is_constructed
  /\ s.ndef \/ s.length >= 3
  /\ o.err = OK /\ o.class = CLASS_UNIVERSAL /\ o.tag = TYPE_OBJECT_ID
  /\ ~o.is_constructed /\ o.length # 0 /\ o.length < OidBufSize
  /\ s.ndef \/ s.length >= o.nhdr + o.length
  /\ s.nhdr + o.nhdr + o.length > Len(b)

ReaderFailsInContentInfo ==
  OidValueCut(cin.der, _ksba_ber_read_tl(cin.der, 0),
              _ksba_ber_read_tl(cin.der, _ksba_ber_read_tl(cin.der, 0).nhdr))

\* C27: read_buffer returns success only after exactly n bytes were
\* delivered, and a reader failure while it reads makes the parser
\* operation that called it (here parse_content_info, through
\* _ksba_cms_parse_content_info) return Read_Error.
C27_ReaderFailureIsReadError ==
  (cres.calls = 1 /\ ReaderFailsInContentInfo) => cres.err = "KSBA_Read_Error"

\* What parse_content_info returns instead: the -1 of read_buffer, which
\* is the value of KSBA_EOF.
C27_ReaderFailureIsMinusOne ==
  (cres.calls = 1 /\ ReaderFailsInContentInfo)
    => cres.err = "KSBA_EOF" /\ cres.inner.err = "KSBA_EOF"

C27_CutWitness ==
  /\ cres.calls = 1
  /\ ReaderFailsInContentInfo
  /\ cres.err = "KSBA_EOF"

\* The same for the two parts 1: the digestAlgorithms SET that is cut
\* gives Read_Error, the encryptedContentInfo that is cut gives -1.
C27_ReaderFailureInPart1 ==
  /\ (cres.op = "part_1" /\ cms.content_type = "signed"
      /\ cin = RawInput("signed", OidSignedData, CutInDigestAlgorithms)
      /\ cres.oom = "none")
       => cres.err = "KSBA_Read_Error"
  /\ (cres.op = "part_1" /\ cms.content_type = "enveloped"
      /\ cin = RawInput("enveloped", OidEnvelopedData, CutInEncryptedContentInfo)
      /\ cres.oom = "none")
       => cres.err = "KSBA_EOF"

C27_Part1Witness ==
  /\ cres.op = "part_1"
  /\ cin = RawInput("enveloped", OidEnvelopedData, CutInEncryptedContentInfo)
  /\ cres.oom = "none"
  /\ cres.err = "KSBA_EOF"

(***************************************************************************)
(*   Claim C28: get_algorithm on buffers whose lengths are written in all  *)
(*   the forms TLV_LENGTH reads, checked under SpecRange.                  *)
(***************************************************************************)

\* The length n written in one octet, in the long form with one octet,
\* with as many octets as an unsigned long has, with one octet more whose
\* first is shifted out of the word, and with a first octet that makes it
\* larger than any buffer.
LengthForm(form, n) ==
  CASE form = "short" -> <<n>>
    [] form = "long1" -> <<129, n>>
    [] form = "word"  -> <<128 + WordOctets>> \o SubSeq(ZeroWord, 2, WordOctets) \o <<n>>
    [] form = "wrap"  -> <<129 + WordOctets, 1>> \o SubSeq(ZeroWord, 2, WordOctets) \o <<n>>
    [] form = "huge"  -> <<128 + WordOctets, 1>> \o SubSeq(ZeroWord, 3, WordOctets) \o <<n>>

LengthForms == {"short", "long1", "word", "wrap", "huge"}

\* A TLV whose length, plus delta, is written in the given form.
FormTLV(tag, form, delta, value) == <<tag>> \o LengthForm(form, Len(value) + delta) \o value

RangeParms ==
  { <<>>, <<5, 0>> }
  \cup { FormTLV(tag, form, delta, <<7, 7>>) :
           tag \in {4, 6, 48, 19}, form \in {"short", "wrap"}, delta \in {0, 1} }

RangeValues ==
  { <<>> } \cup { FormTLV(3, form, delta, <<0, 9>>) : form \in {"short", "wrap", "huge"},
                                                      delta \in {0, 1} }

\* The buffer: an AlgorithmIdentifier, and behind it a BIT STRING or
\* nothing.
RangeInput(seqForm, seqDelta, oidForm, oidDelta, parm, value) ==
  [der |-> FormTLV(48, seqForm, seqDelta,
                   FormTLV(6, oidForm, oidDelta, <<43, 14>>) \o parm)
             \o value,
   seqForm |-> seqForm, oidForm |-> oidForm, parm |-> parm, value |-> value]

RangeInputs ==
  { RangeInput(sf, sd, of, od, parm, value) :
      sf \in LengthForms, sd \in {0, 1}, of \in LengthForms, od \in {0, 1},
      parm \in RangeParms, value \in RangeValues }

\* A caller inside keyinfo.c runs get_algorithm on the buffer, in one of
\* its two modes, with or without r_parm_pos and r_parm_len.
GetAlgorithm ==
  /\ apc = "input"
  /\ \E mode \in {0, 1}, want \in BOOLEAN :
       /\ ares' = get_algorithm(mode, ain.der, want)
       /\ apc' = IF mode = 0 THEN "mode0" ELSE "mode1"
  /\ UNCHANGED <<ain, certVars, cmsVars, keyVars>>

\* _ksba_parse_algorithm_identifier2 on the buffer, as the CMS parser
\* calls it before its assertions on nread.
ParseForCms ==
  /\ apc = "input"
  /\ ares' = parse_algorithm_identifier2(ain.der, TRUE, "none")
  /\ apc' = "identifier2"
  /\ UNCHANGED <<ain, certVars, cmsVars, keyVars>>

InitRange ==
  /\ FreshCert
  /\ IdleCms
  /\ IdleKey
  /\ ain \in RangeInputs
  /\ ares = NoAlgResult
  /\ apc = "input"

NextRange ==
  \/ GetAlgorithm
  \/ ParseForCms

SpecRange == InitRange /\ [][NextRange]_vars

GetAlgorithmSucceeded == apc \in {"mode0", "mode1"} /\ ares.err = OK

\* C28: whenever get_algorithm succeeds on a buffer of derlen bytes, every
\* range it reports lies inside the buffer: r_pos + r_len <= derlen,
\* r_parm_pos + r_parm_len <= derlen and r_nread <= derlen, also for
\* lengths in the long form of more octets than an unsigned long has; so
\* the nread the CMS parser asserts on is never more than the length it
\* passed.
C28_RangesInsideBuffer ==
  /\ GetAlgorithmSucceeded =>
       /\ ares.pos + ares.len <= Len(ain.der)
       /\ ares.parm_pos + ares.parm_len <= Len(ain.der)
       /\ ares.nread <= Len(ain.der)
  /\ (apc = "identifier2" /\ ares.err = OK) => ares.nread <= Len(ain.der)

\* get_algorithm has succeeded in mode 1 on a buffer in which the lengths
\* of the SEQUENCE, of the OID and of the BIT STRING are written with one
\* octet more than the word has.
C28_Witness ==
  /\ apc = "mode1"
  /\ ares.err = OK
  /\ ain.seqForm = "wrap"
  /\ ain.oidForm = "wrap"
  /\ ain.value = FormTLV(3, "wrap", 0, <<0, 9>>)
  /\ ares.parm_len > 0
  /\ ares.nread + 2 = Len(ain.der)

(***************************************************************************)
(*   Claim C29                                                             *)
(***************************************************************************)

ContentInfoReturned == cres.calls > 0

\* C29: on every error return of parse_content_info behind the allocation
\* of the content type's OID string that string has been freed, and on
\* success it is handed to the caller through r_oid: no path leaves the
\* string allocated and unreachable.
C29_OidStringFreedOrHandedOut ==
  ContentInfoReturned =>
    /\ ~cres.inner.lost
    /\ cres.inner.err = OK => ~cres.inner.oid.null

\* The string is lost only by the tests of the [0] header against the
\* length of a ContentInfo of definite length; every other error return
\* behind the allocation frees it, and the success hands it out.
C29_FreedElsewhere ==
  ContentInfoReturned =>
    /\ cres.inner.lost
         => /\ cres.inner.err = "KSBA_BER_Error"
            /\ cin.outer \in {"exact", "long"}
            /\ cin.content = "ctx_over"
    /\ cres.inner.err = OK => ~cres.inner.oid.null

\* The [0] header declares more than the ContentInfo has left, and the
\* string stays allocated.
C29_LostWitness ==
  /\ cres.calls = 1
  /\ cin.outer = "exact"
  /\ cin.content = "ctx_over"
  /\ cres.inner.err = "KSBA_BER_Error"
  /\ cres.inner.lost

\* A header that is neither [0] nor the end tag: the string is freed.
C29_FreedWitness ==
  /\ cres.calls = 1
  /\ cin.content = "seq"
  /\ cin.oid = "ok"
  /\ cres.inner.err = "KSBA_Invalid_CMS_Object"
  /\ ~cres.inner.lost

(***************************************************************************)
(*   Claim C30: _ksba_cms_parse_signed_data_part_2 with its certificate    *)
(*   loop taken one iteration at a time, checked under SpecLoop.  The      *)
(*   handle is in the state "certificates" while the loop runs and in      *)
(*   "after_certificates" once it has ended with a header that is no       *)
(*   SEQUENCE; cres then keeps that header and its offset.                 *)
(***************************************************************************)

\* What one iteration leaves: the error, whether the loop has ended, the
\* list, the header read, its offset and the reader's position.
Iteration(err, done, list, ti, at, p) ==
  [err |-> err, done |-> done, list |-> list, ti |-> ti, at |-> at, p |-> p]

\* One iteration that reads nothing and keeps nothing once it has seen
\* the header of a SEQUENCE.
certificate_iteration_wrong(b, p, oom, list) ==
  The({ The({
    IF ti.err # OK THEN Iteration(ti.err, FALSE, list, ti, p, p)
    ELSE IF ~(ti.class = CLASS_UNIVERSAL /\ ti.tag = TYPE_SEQUENCE /\ ti.is_constructed)
      THEN Iteration(OK, TRUE, list, ti, p, p + ti.nhdr)
    ELSE IF oom = "cert" THEN Iteration("KSBA_Out_Of_Core", FALSE, list, ti, p, p)
    ELSE IF crt.err # OK THEN Iteration(crt.err, FALSE, list, ti, p, crt.p)
    ELSE IF oom = "cl" THEN Iteration("KSBA_Out_Of_Core", FALSE, list, ti, p, crt.p)
    ELSE Iteration(OK, FALSE, list, ti, p, p)
    : crt \in {decode_certificate(b, p)} })
    : ti \in {_ksba_ber_read_tl(b, p)} })

\* One iteration of the loop over the certificates with the reader at
\* offset p: the header is read and, if it is that of a SEQUENCE, pushed
\* back, and the certificate parser reads the certificate, which is put
\* in front of the list.
certificate_iteration(b, p, oom, list) ==
  The({ The({
    IF ti.err # OK THEN Iteration(ti.err, FALSE, list, ti, p, p)
    ELSE IF ~(ti.class = CLASS_UNIVERSAL /\ ti.tag = TYPE_SEQUENCE /\ ti.is_constructed)
      THEN Iteration(OK, TRUE, list, ti, p, p + ti.nhdr)
    ELSE IF oom = "cert" THEN Iteration("KSBA_Out_Of_Core", FALSE, list, ti, p, p)
    ELSE IF crt.err # OK THEN Iteration(crt.err, FALSE, list, ti, p, crt.p)
    ELSE IF oom = "cl" THEN Iteration("KSBA_Out_Of_Core", FALSE, list, ti, p, crt.p)
    ELSE Iteration(OK, FALSE, <<crt.image>> \o list, ti, p, crt.p)
    : crt \in {decode_certificate(b, p)} })
    : ti \in {_ksba_ber_read_tl(b, p)} })

\* The record of a step of part 2 that has not returned yet.
LoopStep(op, oom, ti, at) ==
  [op |-> op, err |-> OK, oom |-> oom, before |-> cms, tested |-> at,
   ops |-> cres.ops, ti |-> ti]

\* _ksba_cms_parse_signed_data_part_2 up to the loop: it reads a header,
\* and behind that of a [0] of definite length the loop begins; any other
\* header is the one the rest of the function tests.
Part2Begin ==
  /\ cms.state = StateBefore("part_2")
  /\ cms.content_type = "signed"
  /\ \E ti \in {_ksba_ber_read_tl(cin.der, cms.pos)} :
       IF ti.err # OK THEN DataReturned("part_2", "none", CmsResult(ti.err, cms), -1)
       ELSE IF ~(ti.class = CLASS_CONTEXT /\ ti.tag = 0 /\ ti.is_constructed)
         THEN /\ cms' = [cms EXCEPT !.pos = cms.pos + ti.nhdr,
                                    !.state = "after_certificates"]
              /\ cres' = LoopStep("no_certificates", "none", ti, cms.pos)
       ELSE IF ti.ndef
         THEN DataReturned("part_2", "none",
                           CmsResult("KSBA_Unsupported_Encoding",
                                     [cms EXCEPT !.pos = cms.pos + ti.nhdr]), -1)
       ELSE /\ cms' = [cms EXCEPT !.pos = cms.pos + ti.nhdr, !.state = "certificates"]
            /\ cres' = LoopStep("certificates", "none", ti, cms.pos)
  /\ UNCHANGED <<cin, certVars, algVars, keyVars>>

\* One iteration of the loop.
CertificateIteration ==
  /\ cms.state = "certificates"
  /\ \E oom \in {"none", "cert", "cl"} :
       \E it \in {certificate_iteration(cin.der, cms.pos, oom, cms.cert_list)} :
         IF it.err # OK
           THEN DataReturned("part_2", oom,
                             CmsResult(it.err, [cms EXCEPT !.pos = it.p]), -1)
         ELSE IF it.done
           THEN /\ cms' = [cms EXCEPT !.pos = it.p, !.state = "after_certificates"]
                /\ cres' = LoopStep("loop_ended", oom, it.ti, it.at)
         ELSE /\ cms' = [cms EXCEPT !.pos = it.p, !.cert_list = it.list]
              /\ cres' = LoopStep("certificate", oom, it.ti, it.at)
  /\ UNCHANGED <<cin, certVars, algVars, keyVars>>

\* The rest of part 2, which tests the header that was read last.
Part2Tail ==
  /\ cms.state = "after_certificates"
  /\ \E oom \in {"none", "decoder"} :
       SignedTail(oom, signed_data_crls(cms, cin.der, oom, cres.ti, cres.tested, cms.pos))
  /\ UNCHANGED <<cin, certVars, algVars, keyVars>>

InitLoop ==
  /\ FreshCert
  /\ IdleAlg
  /\ IdleKey
  /\ cin \in SignedInputs
  /\ cms = FreshCms
  /\ cres = NoDataCall

NextLoop ==
  \/ ksba_cms_parse
  \/ _ksba_cms_parse_signed_data_part_1
  \/ ksba_cms_set_hash_function
  \/ read_content
  \/ Part2Begin
  \/ CertificateIteration
  \/ Part2Tail

\* Part 2 runs on until it returns; when its caller calls it is up to the
\* caller.
SpecLoop ==
  InitLoop /\ [][NextLoop]_vars
           /\ WF_vars(Part2Begin \/ CertificateIteration \/ Part2Tail)

InLoop == cms.state = "certificates"
LoopEnded == cms.state = "after_certificates" /\ cres.op = "loop_ended"

\* An iteration that has read a certificate has moved the reader on by
\* the certificate, which is more than its header.
IterationConsumes ==
  (InLoop /\ cres.op = "certificate") =>
    /\ cms.pos > cres.before.pos + cres.ti.nhdr
    /\ cres.ti = _ksba_ber_read_tl(cin.der, cres.before.pos)
    /\ cres.ti.nhdr >= 2

\* The loop has ended at a header that is not that of a SEQUENCE; the
\* reader stands behind that header, and it is the header kept for the
\* tests that follow.
EndsAtFirstOther ==
  LoopEnded =>
    /\ cres.ti = _ksba_ber_read_tl(cin.der, cres.tested)
    /\ cres.ti.err = OK
    /\ ~(cres.ti.class = CLASS_UNIVERSAL /\ cres.ti.tag = TYPE_SEQUENCE
         /\ cres.ti.is_constructed)
    /\ cres.before.pos = cres.tested
    /\ cms.pos = cres.tested + cres.ti.nhdr

\* The header the loop ended at is the one tested for the SET OF
\* signerInfo, unless it is that of a [1], behind which the next header
\* is.
KeptHeaderIsTested ==
  (LoopEnded /\ cres'.op = "part_2") =>
    IF cres.ti.class = CLASS_CONTEXT /\ cres.ti.tag = 1 /\ cres.ti.is_constructed
      THEN cres'.tested \in {-1, cms.pos}
    ELSE cres'.tested = cres.tested

\* C30: the loop over the certificates of _ksba_cms_parse_signed_data_part_2
\* terminates on every finite input: each iteration consumes at least one
\* TLV header from the reader, and the loop ends either at the first TLV
\* that is not a universal constructed SEQUENCE, whose header is kept, not
\* pushed back, and is the TLV then tested for [1] and the SET OF
\* signerInfo, or with an error return.
C30_CertificateLoopTerminates ==
  /\ [](IterationConsumes /\ EndsAtFirstOther)
  /\ [][KeptHeaderIsTested]_vars
  /\ InLoop ~> (LoopEnded \/ (cms.state = "unusable" /\ cres.err # OK))

\* The loop has read two certificates and has ended at the header of the
\* SET OF signerInfo.
C30_Witness ==
  /\ LoopEnded
  /\ Len(cms.cert_list) = 2
  /\ cres.ti.tag = TYPE_SET
  /\ cms.pos = cres.tested + 2

\* The loop taken at once, as part 2 runs it, gives what its iterations
\* give.
C30_LoopAsInPart2 ==
  LoopEnded =>
    Certificates(cin.der, cin.content_end + 2, "none", <<>>)
      = [err |-> OK, list |-> cms.cert_list, ti |-> cres.ti, at |-> cres.tested,
         p |-> cms.pos]

====
